---- MODULE Spec2Model ----
(***************************************************************************)
(* Model of the tracker's task store (react-client/src/store/TasksProvider) *)
(* and of the section projection of the tasks page (pages/Tasks.tsx).       *)
(*                                                                          *)
(* The store is a reducer over one State record {started, progress, plans}; *)
(* every reducer case is an operator from a State to a State, and one       *)
(* action of the state machine applies it.  JavaScript strings are TLA+     *)
(* strings, arrays are sequences, and objects used as maps are functions    *)
(* whose DOMAIN is the set of keys present.                                 *)
(*                                                                          *)
(* Optional fields: `completed`, `notes` and `children` are read by the     *)
(* code only through `!!x`, `x ?? []` and `x ?? ''`, so undefined is        *)
(* modelled as FALSE, <<>> and "".  TaskMeta.subtasks is different: the     *)
(* reducer tests `!current.subtasks`, which tells undefined from [], so the *)
(* model keeps the flag subtasksDefined next to the list.                   *)
(***************************************************************************)
EXTENDS Integers, Sequences, FiniteSets, TLC

VARIABLES state, clock, call, zone

vars == <<state, clock, call, zone>>

(***************************************************************************)
(* Bounds of the exploration.                                              *)
(***************************************************************************)
\* Largest number of subtasks created in one run (addSubtask calls).
MaxNodes == 3
\* Largest number of subtasks created under a problem in SpecSections.
MaxProblemNodes == 2
\* Largest number of subtasks created in one run of SpecEdits.
MaxEditNodes == 2
\* Longest string given to slug in SpecSlug.
MaxSlugLen == 4
\* Largest number of edited fields (renamed titles, non-empty notes) among
\* the subtask nodes of one plan.
MaxEdits == 2

(***************************************************************************)
(* Generic helpers for sequences and maps.                                 *)
(***************************************************************************)
SeqMap(Op(_), s) == [i \in 1..Len(s) |-> Op(s[i])]

RECURSIVE SeqSum(_)
SeqSum(s) == IF s = <<>> THEN 0 ELSE Head(s) + SeqSum(Tail(s))

Every(s, Test(_)) == \A i \in 1..Len(s) : Test(s[i])

EmptyMap == [k \in {} |-> TRUE]

Put(f, k, v) == [x \in (DOMAIN f) \cup {k} |-> IF x = k THEN v ELSE f[x]]

(***************************************************************************)
(* Task key codec: slug and makeTaskKey.                                   *)
(***************************************************************************)
UpperLetters == "ABCDEFGHIJKLMNOPQRSTUVWXYZ"
LowerLetters == "abcdefghijklmnopqrstuvwxyz"
Digits == "0123456789"

CharsOf(s) == {SubSeq(s, i, i) : i \in 1..Len(s)}

\* String.prototype.toLowerCase on one character (ASCII letters; the strings
\* of the model hold no other cased character).
UpperChars == CharsOf(UpperLetters)
SlugChars == CharsOf(LowerLetters) \cup CharsOf(Digits)

LowerOf ==
  [c \in UpperChars |->
     LET i == CHOOSE j \in 1..Len(UpperLetters) : SubSeq(UpperLetters, j, j) = c
     IN  SubSeq(LowerLetters, i, i)]

lowerChar(c) == IF c \in UpperChars THEN LowerOf[c] ELSE c

RECURSIVE toLowerCase(_)
toLowerCase(s) == IF s = "" THEN "" ELSE lowerChar(Head(s)) \o toLowerCase(Tail(s))

isSlugChar(c) == c \in SlugChars

\* s.replace(/[^a-z0-9]+/g, '-'): every maximal run of other characters
\* becomes one '-'.
RECURSIVE dropRun(_)
dropRun(s) ==
  IF s = "" \/ isSlugChar(Head(s)) THEN s ELSE dropRun(Tail(s))

\* A replacement that writes one '-' for every other character of a run.
RECURSIVE replaceEach(_)
replaceEach(s) ==
  IF s = "" THEN ""
  ELSE IF isSlugChar(Head(s)) THEN Head(s) \o replaceEach(Tail(s))
  ELSE "-" \o replaceEach(Tail(s))

RECURSIVE replaceRuns(_)
replaceRuns(s) ==
  IF s = "" THEN ""
  ELSE IF isSlugChar(Head(s)) THEN Head(s) \o replaceRuns(Tail(s))
  ELSE "-" \o replaceRuns(dropRun(Tail(s)))

\* s.replace(/^-+|-+$/g, ''): leading and trailing dashes are removed.
RECURSIVE stripLeading(_)
stripLeading(s) ==
  IF s # "" /\ Head(s) = "-" THEN stripLeading(Tail(s)) ELSE s

RECURSIVE stripTrailing(_)
stripTrailing(s) ==
  IF s # "" /\ SubSeq(s, Len(s), Len(s)) = "-"
  THEN stripTrailing(SubSeq(s, 1, Len(s) - 1))
  ELSE s

slug(s) == stripTrailing(stripLeading(replaceRuns(toLowerCase(s))))

\* A key that writes the week and the day next to each other.
makeTaskKeyUnseparated(categoryId, week, day, bucket, title) ==
  categoryId \o "__w" \o ToString(week) \o day
             \o "__" \o slug(bucket) \o "__" \o slug(title)

makeTaskKey(categoryId, week, day, bucket, title) ==
  categoryId \o "__w" \o ToString(week) \o "__d" \o day
             \o "__" \o slug(bucket) \o "__" \o slug(title)

(***************************************************************************)
(* Data: TaskMeta, Subtask, State.                                         *)
(***************************************************************************)
\* `tasks[key] ?? {}`: the metadata of a key that has no entry.
EmptyMeta ==
  [completed |-> FALSE, notes |-> "", subtasksDefined |-> FALSE, subtasks |-> <<>>]

metaOf(tasksState, key) ==
  IF key \in DOMAIN tasksState THEN tasksState[key] ELSE EmptyMeta

\* loadInitial() with nothing in local storage.
EmptyState == [started |-> EmptyMap, progress |-> EmptyMap, plans |-> EmptyMap]

AddStats(a, b) ==
  [completed |-> a.completed + b.completed, total |-> a.total + b.total]

ZeroStats == [completed |-> 0, total |-> 0]

RECURSIVE SumStats(_)
SumStats(s) == IF s = <<>> THEN ZeroStats ELSE AddStats(Head(s), SumStats(Tail(s)))

(***************************************************************************)
(* computeProgressForPlan: leaf-only progress of a plan.                   *)
(***************************************************************************)
\* walk() inside countSubStats: a node with children is descended into, a
\* node without children counts one unit.
RECURSIVE countSubStats(_)
countSubStats(list) ==
  SumStats(SeqMap(LAMBDA s :
                    IF Len(s.children) > 0
                    THEN countSubStats(s.children)
                    ELSE [completed |-> IF s.completed THEN 1 ELSE 0, total |-> 1],
                  list))

\* The body of the two inner loops: one problem or one activity.
itemProgress(tasksState, key) ==
  LET meta == metaOf(tasksState, key)
      subs == countSubStats(meta.subtasks)
  IN  IF subs.total > 0
      THEN subs
      ELSE [completed |-> IF meta.completed THEN 1 ELSE 0, total |-> 1]

dayProgress(categoryId, tasksState, wk, day) ==
  AddStats(
    SumStats(SeqMap(LAMBDA p :
      SumStats(SeqMap(LAMBDA pr :
        itemProgress(tasksState, makeTaskKey(categoryId, wk.week, day.day, p.name, pr)),
        p.problems)),
      day.patterns)),
    SumStats(SeqMap(LAMBDA act :
      itemProgress(tasksState, makeTaskKey(categoryId, wk.week, day.day, "activity", act)),
      day.activities)))

\* `plan.raw?.schedule ?? []`: the schedule of a raw plan that may have none.
scheduleOrEmpty(raw) == IF "schedule" \in DOMAIN raw THEN raw.schedule ELSE <<>>

computeProgressForPlan(categoryId, plan) ==
  SumStats(SeqMap(LAMBDA wk :
    SumStats(SeqMap(LAMBDA day : dayProgress(categoryId, plan.tasks, wk, day), wk.days)),
    scheduleOrEmpty(plan.raw)))

\* `{ ...state, plans, progress }` with the category's plan replaced and its
\* progress recomputed from the new plan.
withPlan(st, categoryId, plan) ==
  [st EXCEPT !.plans = Put(st.plans, categoryId, plan),
             !.progress = Put(st.progress, categoryId,
                              computeProgressForPlan(categoryId, plan))]

\* `{ ...state, plans }`: the plan replaced, progress left as it is.
withPlanOnly(st, categoryId, plan) ==
  [st EXCEPT !.plans = Put(st.plans, categoryId, plan)]

\* A withMeta that keeps no other key of the category.
withMetaAlone(cat, key, meta) == [cat EXCEPT !.tasks = Put(EmptyMap, key, meta)]

\* `{ ...cat, tasks }` with `tasks[key] = meta`.
withMeta(cat, key, meta) == [cat EXCEPT !.tasks = Put(cat.tasks, key, meta)]

(***************************************************************************)
(* Reducer cases.                                                          *)
(***************************************************************************)
importPlan(st, categoryId, plan, startDate) ==
  withPlan(st, categoryId,
           [title |-> plan.title, startDate |-> startDate, raw |-> plan,
            tasks |-> IF categoryId \in DOMAIN st.plans
                      THEN st.plans[categoryId].tasks ELSE EmptyMap])

\* A markAll that sets the root nodes and leaves their descendants alone.
markAllListRootsOnly(list, value) ==
  SeqMap(LAMBDA s : [s EXCEPT !.completed = value], list)

\* markAll of toggleTask: every node of the list, at every depth.
RECURSIVE markAllList(_, _)
markAllList(list, value) ==
  SeqMap(LAMBDA s : [s EXCEPT !.completed = value,
                              !.children = markAllList(s.children, value)],
         list)

\* `tasks[key] = { ...(tasks[key] ?? {}), notes }`; progress is left alone.
setTaskNotes(st, categoryId, key, notes) ==
  IF categoryId \notin DOMAIN st.plans THEN st
  ELSE LET cat == st.plans[categoryId]
       IN  withPlanOnly(st, categoryId,
             withMeta(cat, key, [metaOf(cat.tasks, key) EXCEPT !.notes = notes]))

\* `tasks[key] = { ...(tasks[key] ?? {}), titleOverride: title }`; progress
\* is left alone.
renameTask(st, categoryId, key, title) ==
  IF categoryId \notin DOMAIN st.plans THEN st
  ELSE LET cat == st.plans[categoryId]
           current == metaOf(cat.tasks, key)
       IN  withPlanOnly(st, categoryId,
             withMeta(cat, key,
               [f \in DOMAIN current \cup {"titleOverride"} |->
                  IF f = "titleOverride" THEN title ELSE current[f]]))

toggleTask(st, categoryId, key) ==
  IF categoryId \notin DOMAIN st.plans THEN st
  ELSE LET cat == st.plans[categoryId]
           current == metaOf(cat.tasks, key)
           next == ~current.completed
       IN  withPlan(st, categoryId,
             withMeta(cat, key,
               [current EXCEPT !.completed = next,
                               !.subtasks = markAllList(current.subtasks, next)]))

\* An addToTree that looks for the parent among the root nodes only.
addToTreeRootsOnly(list, parentId, newNode) ==
  SeqMap(LAMBDA s :
           IF s.id = parentId
           THEN [s EXCEPT !.children = Append(s.children, newNode)]
           ELSE s,
         list)

\* addToTree: append newNode to the children of every node whose id is
\* parentId; the children of a matching node are not searched.
RECURSIVE addToTree(_, _, _)
addToTree(list, parentId, newNode) ==
  SeqMap(LAMBDA s :
           IF s.id = parentId
           THEN [s EXCEPT !.children = Append(s.children, newNode)]
           ELSE [s EXCEPT !.children = addToTree(s.children, parentId, newNode)],
         list)

\* `id` is the identifier the reducer generates from the clock and a random
\* suffix; it is an input of the model.  parentId "" is an absent parentId.
addSubtask(st, categoryId, key, title, notes, parentId, id) ==
  IF categoryId \notin DOMAIN st.plans THEN st
  ELSE LET cat == st.plans[categoryId]
           current == metaOf(cat.tasks, key)
           newNode == [id |-> id, title |-> title, completed |-> FALSE,
                       notes |-> notes, children |-> <<>>]
           before == current.subtasks
           after == addToTree(before, parentId, newNode)
           subs == IF parentId # ""
                   THEN (IF before = after THEN Append(after, newNode) ELSE after)
                   ELSE Append(before, newNode)
       IN  withPlanOnly(st, categoryId,
             withMeta(cat, key,
               [current EXCEPT !.subtasksDefined = TRUE, !.subtasks = subs]))

\* findNode: first node with the id in depth-first listed order; <<>> is null.
RECURSIVE findNode(_, _)
findNode(list, targetId) ==
  IF list = <<>> THEN <<>>
  ELSE IF Head(list).id = targetId THEN <<Head(list)>>
  ELSE LET found == findNode(Head(list).children, targetId)
       IN  IF Len(found) > 0 THEN found ELSE findNode(Tail(list), targetId)

\* A markAll that sets the node and leaves its descendants alone.
markAllNodeOnly(node, value) == [node EXCEPT !.completed = value]

\* markAll of toggleSubtask: a node and all its descendants.
RECURSIVE markAll(_, _)
markAll(node, value) ==
  [node EXCEPT !.completed = value,
               !.children = SeqMap(LAMBDA c : markAll(c, value), node.children)]

RECURSIVE applyToggle(_, _, _, _)
applyToggle(list, targetId, hasChildren, next) ==
  SeqMap(LAMBDA s :
           IF s.id = targetId
           THEN (IF hasChildren THEN markAll(s, next) ELSE [s EXCEPT !.completed = next])
           ELSE [s EXCEPT !.children = applyToggle(s.children, targetId, hasChildren, next)],
         list)

\* A propagate that fixes the root nodes only, from their children as found.
propagateRootsOnly(list) ==
  SeqMap(LAMBDA s :
           IF Len(s.children) = 0 THEN s
           ELSE [s EXCEPT !.completed = Every(s.children, LAMBDA k : k.completed)],
         list)

\* propagate of toggleSubtask: children first, then every node that has
\* children takes the conjunction of its children.
RECURSIVE propagate(_)
propagate(list) ==
  LET childrenFixed == SeqMap(LAMBDA s : [s EXCEPT !.children = propagate(s.children)], list)
  IN  SeqMap(LAMBDA s :
               IF Len(s.children) = 0 THEN s
               ELSE [s EXCEPT !.completed = Every(s.children, LAMBDA k : k.completed)],
             childrenFixed)

\* A parentCompleted without the length test: true of an empty list.
parentCompletedNoLength(subs) == Every(subs, LAMBDA s : s.completed)

\* `subs.length > 0 && subs.every(s => !!s.completed)`
parentCompleted(subs) == Len(subs) > 0 /\ Every(subs, LAMBDA s : s.completed)

\* A toggleFound that completes the target whatever its flag was.
toggleFoundCompleting(st, categoryId, key, subtaskId, target) ==
  LET cat == st.plans[categoryId]
      current == cat.tasks[key]
      hasChildren == Len(target.children) > 0
      toggled == applyToggle(current.subtasks, subtaskId, hasChildren, TRUE)
      subs == propagate(toggled)
  IN  withPlan(st, categoryId,
        withMeta(cat, key,
          [current EXCEPT !.completed = parentCompleted(subs), !.subtasks = subs]))

\* The part of toggleSubtask that follows `if (!target) return state`.
toggleFound(st, categoryId, key, subtaskId, target) ==
  LET cat == st.plans[categoryId]
      current == cat.tasks[key]
      next == ~target.completed
      hasChildren == Len(target.children) > 0
      toggled == applyToggle(current.subtasks, subtaskId, hasChildren, next)
      subs == propagate(toggled)
  IN  withPlan(st, categoryId,
        withMeta(cat, key,
          [current EXCEPT !.completed = parentCompleted(subs), !.subtasks = subs]))

\* A toggleSubtask that, when no node has the id, still propagates and
\* recomputes the task flag and the progress (as removeSubtask does).
toggleSubtaskRecomputing(st, categoryId, key, subtaskId) ==
  IF categoryId \notin DOMAIN st.plans THEN st
  ELSE LET cat == st.plans[categoryId]
       IN  IF key \notin DOMAIN cat.tasks \/ ~cat.tasks[key].subtasksDefined THEN st
           ELSE LET current == cat.tasks[key]
                    target == findNode(current.subtasks, subtaskId)
                    subs == propagate(current.subtasks)
                IN  IF Len(target) = 0
                    THEN withPlan(st, categoryId,
                           withMeta(cat, key,
                             [current EXCEPT !.completed = parentCompleted(subs),
                                             !.subtasks = subs]))
                    ELSE toggleFound(st, categoryId, key, subtaskId, target[1])

toggleSubtask(st, categoryId, key, subtaskId) ==
  IF categoryId \notin DOMAIN st.plans THEN st
  ELSE LET cat == st.plans[categoryId]
       IN  IF key \notin DOMAIN cat.tasks \/ ~cat.tasks[key].subtasksDefined THEN st
           ELSE LET target == findNode(cat.tasks[key].subtasks, subtaskId)
                IN  IF Len(target) = 0 THEN st
                    ELSE toggleFound(st, categoryId, key, subtaskId, target[1])

RECURSIVE remove(_, _)
remove(list, targetId) ==
  SeqMap(LAMBDA s : [s EXCEPT !.children = remove(s.children, targetId)],
         SelectSeq(list, LAMBDA s : s.id # targetId))

\* propagate of removeSubtask (the reducer case declares its own copy).
RECURSIVE propagateRemoved(_)
propagateRemoved(list) ==
  LET childrenFixed == SeqMap(LAMBDA s : [s EXCEPT !.children = propagateRemoved(s.children)], list)
  IN  SeqMap(LAMBDA s :
               IF Len(s.children) = 0 THEN s
               ELSE [s EXCEPT !.completed = Every(s.children, LAMBDA k : k.completed)],
             childrenFixed)

removeSubtask(st, categoryId, key, subtaskId) ==
  IF categoryId \notin DOMAIN st.plans THEN st
  ELSE LET cat == st.plans[categoryId]
       IN  IF key \notin DOMAIN cat.tasks \/ ~cat.tasks[key].subtasksDefined THEN st
           ELSE LET current == cat.tasks[key]
                    removed == remove(current.subtasks, subtaskId)
                    subs == propagateRemoved(removed)
                IN  withPlan(st, categoryId,
                      withMeta(cat, key,
                        [current EXCEPT !.completed = parentCompleted(subs),
                                        !.subtasks = subs]))

\* A setNotes that looks at the root nodes only.
setNotesRootsOnly(list, targetId, newNotes) ==
  SeqMap(LAMBDA s : IF s.id = targetId THEN [s EXCEPT !.notes = newNotes] ELSE s, list)

RECURSIVE setNotes(_, _, _)
setNotes(list, targetId, newNotes) ==
  SeqMap(LAMBDA s :
           IF s.id = targetId
           THEN [s EXCEPT !.notes = newNotes]
           ELSE [s EXCEPT !.children = setNotes(s.children, targetId, newNotes)],
         list)

setSubtaskNotes(st, categoryId, key, subtaskId, notes) ==
  IF categoryId \notin DOMAIN st.plans THEN st
  ELSE LET cat == st.plans[categoryId]
       IN  IF key \notin DOMAIN cat.tasks \/ ~cat.tasks[key].subtasksDefined THEN st
           ELSE LET current == cat.tasks[key]
                IN  withPlanOnly(st, categoryId,
                      withMeta(cat, key,
                        [current EXCEPT !.subtasks = setNotes(current.subtasks, subtaskId, notes)]))

RECURSIVE rename(_, _, _)
rename(list, targetId, newTitle) ==
  SeqMap(LAMBDA s :
           IF s.id = targetId
           THEN [s EXCEPT !.title = newTitle]
           ELSE [s EXCEPT !.children = rename(s.children, targetId, newTitle)],
         list)

renameSubtask(st, categoryId, key, subtaskId, title) ==
  IF categoryId \notin DOMAIN st.plans THEN st
  ELSE LET cat == st.plans[categoryId]
       IN  IF key \notin DOMAIN cat.tasks \/ ~cat.tasks[key].subtasksDefined THEN st
           ELSE LET current == cat.tasks[key]
                IN  withPlanOnly(st, categoryId,
                      withMeta(cat, key,
                        [current EXCEPT !.subtasks = rename(current.subtasks, subtaskId, title)]))

(***************************************************************************)
(* removeTask: the key is parsed back into week, day, bucket and title.    *)
(***************************************************************************)
startsWith(s, prefix) ==
  Len(s) >= Len(prefix) /\ SubSeq(s, 1, Len(prefix)) = prefix

\* s.slice(n) for a string, n >= 0.
sliceFrom(s, n) == IF n >= Len(s) THEN "" ELSE SubSeq(s, n + 1, Len(s))

\* String.prototype.split(separator): the pieces between the separators,
\* scanned from the left; `piece` is the piece being read.
RECURSIVE splitFrom(_, _, _)
splitFrom(s, separator, piece) ==
  IF s = "" THEN <<piece>>
  ELSE IF startsWith(s, separator)
       THEN <<piece>> \o splitFrom(sliceFrom(s, Len(separator)), separator, "")
  ELSE splitFrom(Tail(s), separator, piece \o Head(s))

split(s, separator) == splitFrom(s, separator, "")

\* parts.slice(-4): the last four pieces, or all of them when there are fewer.
lastFour(parts) ==
  IF Len(parts) <= 4 THEN parts ELSE SubSeq(parts, Len(parts) - 3, Len(parts))

\* Array destructuring: the element at a position, <<>> when it is undefined.
partAt(parts, i) == IF i <= Len(parts) THEN <<parts[i]>> ELSE <<>>

DigitChars == CharsOf(Digits)

DigitValue ==
  [c \in DigitChars |-> (CHOOSE j \in 1..Len(Digits) : SubSeq(Digits, j, j) = c) - 1]

RECURSIVE leadingDigits(_)
leadingDigits(s) ==
  IF s # "" /\ Head(s) \in DigitChars THEN Head(s) \o leadingDigits(Tail(s)) ELSE ""

RECURSIVE digitsValue(_, _)
digitsValue(s, acc) ==
  IF s = "" THEN acc ELSE digitsValue(Tail(s), 10 * acc + DigitValue[Head(s)])

RECURSIVE skipSpaces(_)
skipSpaces(s) == IF s # "" /\ Head(s) = " " THEN skipSpaces(Tail(s)) ELSE s

\* parseInt(s, 10): leading blanks, an optional sign, then the longest run of
\* digits; <<>> is NaN, <<n>> the number.
parseInt(s) ==
  LET t == skipSpaces(s)
      signed == t # "" /\ Head(t) \in {"-", "+"}
      ds == leadingDigits(IF signed THEN Tail(t) ELSE t)
  IN  IF ds = "" THEN <<>>
      ELSE IF signed /\ Head(t) = "-" THEN <<0 - digitsValue(ds, 0)>>
      ELSE <<digitsValue(ds, 0)>>

\* The day of the key's week and day with the named item filtered out.
removeFromDay(d, bucketSlug, titleSlug) ==
  IF bucketSlug = <<"activity">>
  THEN [d EXCEPT !.activities = SelectSeq(d.activities, LAMBDA act : <<slug(act)>> # titleSlug)]
  ELSE [d EXCEPT !.patterns =
          SelectSeq(
            SeqMap(LAMBDA p :
                     IF <<slug(p.name)>> = bucketSlug
                     THEN [p EXCEPT !.problems =
                             SelectSeq(p.problems, LAMBDA pr : <<slug(pr)>> # titleSlug)]
                     ELSE p,
                   d.patterns),
            LAMBDA p : Len(p.problems) > 0)]

\* A week rebuild that keeps the days the removal has emptied.
removeFromWeekKeepingDays(w, dayRaw, bucketSlug, titleSlug) ==
  [w EXCEPT !.days =
     SeqMap(LAMBDA d : IF d.day # dayRaw THEN d
                       ELSE removeFromDay(d, bucketSlug, titleSlug),
            w.days)]

removeFromWeek(w, dayRaw, bucketSlug, titleSlug) ==
  [w EXCEPT !.days =
     SelectSeq(
       SeqMap(LAMBDA d : IF d.day # dayRaw THEN d
                         ELSE removeFromDay(d, bucketSlug, titleSlug),
              w.days),
       LAMBDA d : Len(d.activities) > 0 \/ Len(d.patterns) > 0)]

removeTask(st, categoryId, key) ==
  IF categoryId \notin DOMAIN st.plans THEN st
  ELSE LET cat == st.plans[categoryId]
           tasks == [k \in (DOMAIN cat.tasks) \ {key} |-> cat.tasks[k]]
           parts == lastFour(split(key, "__"))
           wPart == partAt(parts, 1)
           dPart == partAt(parts, 2)
           bucketSlug == partAt(parts, 3)
           titleSlug == partAt(parts, 4)
           week == parseInt(IF wPart = <<>> THEN "0" ELSE sliceFrom(wPart[1], 1))
           dayRaw == sliceFrom(IF dPart = <<>> THEN "" ELSE dPart[1], 1)
           schedule ==
             SelectSeq(
               SeqMap(LAMBDA w : IF <<w.week>> # week THEN w
                                 ELSE removeFromWeek(w, dayRaw, bucketSlug, titleSlug),
                      cat.raw.schedule),
               LAMBDA w : Len(w.days) > 0)
       IN  withPlan(st, categoryId,
             [cat EXCEPT !.raw = [cat.raw EXCEPT !.schedule = schedule],
                         !.tasks = tasks])

(***************************************************************************)
(* Server (server/index.js): GET /tasks/state seeds a TaskMeta for every   *)
(* problem and activity of a stored plan that has none.                    *)
(***************************************************************************)
\* The keys the seeding loop derives for one day.
seedKeysOfDay(categoryId, wk, day) ==
  UNION {{makeTaskKey(categoryId, wk.week, day.day, "problem", day.patterns[p].problems[q])
            : q \in 1..Len(day.patterns[p].problems)}
         : p \in 1..Len(day.patterns)}
    \cup {makeTaskKey(categoryId, wk.week, day.day, "activity", day.activities[a])
            : a \in 1..Len(day.activities)}

seedKeys(categoryId, schedule) ==
  UNION {UNION {seedKeysOfDay(categoryId, schedule[w], schedule[w].days[d])
                  : d \in 1..Len(schedule[w].days)}
         : w \in 1..Len(schedule)}

\* nextTasks: the existing entries, and `{ completed: false }` under every
\* derived key that has no entry.
seedTasks(categoryId, raw, existing) ==
  [k \in (DOMAIN existing) \cup seedKeys(categoryId, raw.schedule) |->
     IF k \in DOMAIN existing THEN existing[k] ELSE EmptyMeta]

\* PUT /tasks/state: what plans.json and tasks.json hold for the user after
\* the request, kept as one record: title, startDate and raw of every plan,
\* its tasks map, started and progress.
putTasksState(st) ==
  [started |-> st.started,
   progress |-> st.progress,
   plans |-> [c \in DOMAIN st.plans |->
                [title |-> st.plans[c].title, startDate |-> st.plans[c].startDate,
                 raw |-> st.plans[c].raw, tasks |-> st.plans[c].tasks]]]

\* The response of GET /tasks/state for a stored state: every plan with its
\* seeded tasks.
getTasksState(stored) ==
  [stored EXCEPT !.plans =
     [c \in DOMAIN stored.plans |->
        [stored.plans[c] EXCEPT !.tasks = seedTasks(c, stored.plans[c].raw, stored.plans[c].tasks)]]]

(***************************************************************************)
(* Section projection (pages/Tasks.tsx): buildSections and the statistics. *)
(***************************************************************************)
\* String.prototype.trim (blanks).
RECURSIVE trimEnd(_)
trimEnd(s) ==
  IF s # "" /\ SubSeq(s, Len(s), Len(s)) = " " THEN trimEnd(SubSeq(s, 1, Len(s) - 1)) ELSE s

trim(s) == trimEnd(skipSpaces(s))

\* parseDayRange: the pieces between '-' read by parseInt, the NaN ones
\* dropped.
dayParts(s) ==
  SeqMap(LAMBDA n : n[1],
         SelectSeq(SeqMap(LAMBDA piece : parseInt(trim(piece)), split(s, "-")),
                   LAMBDA n : n # <<>>))

parseDayRange(s) ==
  LET parts == dayParts(s)
  IN  IF Len(parts) = 0 THEN [startDay |-> 1, endDay |-> 1]
      ELSE IF Len(parts) = 1 THEN [startDay |-> parts[1], endDay |-> parts[1]]
      ELSE [startDay |-> parts[1], endDay |-> parts[2]]

(***************************************************************************)
(* Dates.  A calendar date is [y, m, d]; a Date object is an instant, kept *)
(* as the calendar date and the hour it has in UTC.  The local fields of a *)
(* Date are those of the instant moved by the offset of the time zone,     *)
(* which is taken as fixed (no daylight-saving change inside a plan).      *)
(***************************************************************************)
isLeapYear(y) == (y % 4 = 0 /\ y % 100 # 0) \/ y % 400 = 0

daysInMonth(y, m) ==
  IF m = 2 THEN (IF isLeapYear(y) THEN 29 ELSE 28)
  ELSE IF m \in {4, 6, 9, 11} THEN 30 ELSE 31

nextDay(c) ==
  IF c.d < daysInMonth(c.y, c.m) THEN [c EXCEPT !.d = c.d + 1]
  ELSE IF c.m < 12 THEN [y |-> c.y, m |-> c.m + 1, d |-> 1]
  ELSE [y |-> c.y + 1, m |-> 1, d |-> 1]

prevDay(c) ==
  IF c.d > 1 THEN [c EXCEPT !.d = c.d - 1]
  ELSE IF c.m > 1 THEN [y |-> c.y, m |-> c.m - 1, d |-> daysInMonth(c.y, c.m - 1)]
  ELSE [y |-> c.y - 1, m |-> 12, d |-> 31]

\* The calendar date n days after (before, for n < 0) a date: what setDate
\* does with a day of the month outside the month.
RECURSIVE plusDays(_, _)
plusDays(c, n) ==
  IF n = 0 THEN c
  ELSE IF n > 0 THEN plusDays(nextDay(c), n - 1)
  ELSE plusDays(prevDay(c), n + 1)

\* new Date('YYYY-MM-DD'): a date-only ISO string is midnight in UTC.
newDate(iso) ==
  [date |-> [y |-> digitsValue(SubSeq(iso, 1, 4), 0),
             m |-> digitsValue(SubSeq(iso, 6, 7), 0),
             d |-> digitsValue(SubSeq(iso, 9, 10), 0)],
   hour |-> 0]

\* The local calendar date and hour of an instant, and the instant that has
\* given local fields, in the zone tz hours east of UTC.
localFields(instant, tz) ==
  LET h == instant.hour + tz
  IN  IF h < 0 THEN [date |-> prevDay(instant.date), hour |-> h + 24]
      ELSE IF h >= 24 THEN [date |-> nextDay(instant.date), hour |-> h - 24]
      ELSE [date |-> instant.date, hour |-> h]

fromLocalFields(fields, tz) == localFields(fields, 0 - tz)

\* addDays: x.setDate(x.getDate() + n) moves the local calendar date and
\* keeps the local time of day.
addDays(instant, n, tz) ==
  LET fields == localFields(instant, tz)
  IN  fromLocalFields([fields EXCEPT !.date = plusDays(fields.date, n)], tz)

MonthNames ==
  <<"Jan", "Feb", "Mar", "Apr", "May", "Jun", "Jul", "Aug", "Sep", "Oct", "Nov", "Dec">>

\* Intl.DateTimeFormat(undefined, { dateStyle: 'medium' }).format: the local
\* calendar date of the instant (written as the en-US locale writes it).
fmtFormat(instant, tz) ==
  LET c == localFields(instant, tz).date
  IN  MonthNames[c.m] \o " " \o ToString(c.d) \o ", " \o ToString(c.y)

\* The labels and dates of the section of one day; startDate "" is null, and
\* a null Date is <<>>.
sectionDates(startDate, dayRaw, tz) ==
  LET range == parseDayRange(dayRaw)
      startDay == range.startDay
      endDay == range.endDay
      start == IF startDate = "" THEN <<>> ELSE <<newDate(startDate)>>
  IN  [dateLabel |->
         IF start = <<>> THEN "No start date"
         ELSE IF startDay = endDay THEN fmtFormat(addDays(start[1], startDay - 1, tz), tz)
         ELSE fmtFormat(addDays(start[1], startDay - 1, tz), tz) \o " - "
                \o fmtFormat(addDays(start[1], endDay - 1, tz), tz),
       dateStart |-> IF start = <<>> THEN <<>> ELSE <<addDays(start[1], startDay - 1, tz)>>,
       dateEnd |-> IF start = <<>> THEN <<>> ELSE <<addDays(start[1], endDay - 1, tz)>>,
       dayLabel |-> IF startDay = endDay THEN "Day " \o ToString(startDay)
                    ELSE "Days " \o ToString(startDay) \o "-" \o ToString(endDay)]

encodeProblemRootId(problemKey) == "k|" \o problemKey

encodeProblemSubId(problemKey, subId) == "k|" \o problemKey \o "#" \o subId

\* String.prototype.indexOf for a one-character needle: the 0-based position
\* of its first occurrence at or after position `from`, or -1.
RECURSIVE indexFrom(_, _, _)
indexFrom(s, ch, from) ==
  IF from >= Len(s) THEN -1
  ELSE IF SubSeq(s, from + 1, from + 1) = ch THEN from
  ELSE indexFrom(s, ch, from + 1)

indexOf(s, ch) == indexFrom(s, ch, 0)

\* null is <<>>; a missing subId is <<>>, a present one is <<subId>>.
parseEncodedSubtaskId(id) ==
  IF ~startsWith(id, "k|") THEN <<>>
  ELSE LET rest == sliceFrom(id, 2)
           hash == indexOf(rest, "#")
       IN  IF hash = -1 THEN << [problemKey |-> rest, subId |-> <<>>] >>
           ELSE << [problemKey |-> SubSeq(rest, 1, hash),
                    subId |-> <<sliceFrom(rest, hash + 1)>>] >>

\* A walkSubs that counts every node, the ones with children included.
RECURSIVE walkSubsEveryNode(_)
walkSubsEveryNode(list) ==
  SumStats(SeqMap(LAMBDA s :
                    AddStats([completed |-> IF s.completed THEN 1 ELSE 0, total |-> 1],
                             walkSubsEveryNode(s.children)),
                  list))

\* walkSubs and the loop of computeStatsWithSubtasks.
RECURSIVE walkSubs(_)
walkSubs(list) ==
  SumStats(SeqMap(LAMBDA s :
                    IF Len(s.children) > 0
                    THEN walkSubs(s.children)
                    ELSE [completed |-> IF s.completed THEN 1 ELSE 0, total |-> 1],
                  list))

computeStatsWithSubtasks(tasks) ==
  SumStats(SeqMap(LAMBDA t :
                    IF Len(t.subtasks) > 0
                    THEN walkSubs(t.subtasks)
                    ELSE [completed |-> IF t.completed THEN 1 ELSE 0, total |-> 1],
                  tasks))

\* mapChildren: the subtasks of a problem's own TaskMeta, with encoded ids.
RECURSIVE mapChildren(_, _)
mapChildren(problemKey, list) ==
  SeqMap(LAMBDA child :
           [id |-> encodeProblemSubId(problemKey, child.id),
            title |-> child.title,
            completed |-> child.completed,
            notes |-> child.notes,
            children |-> mapChildren(problemKey, child.children)],
         list)

\* One node per problem of a pattern, read from the problem's own TaskMeta.
problemNode(categoryId, tasksState, wk, day, p, pr) ==
  LET problemKey == makeTaskKey(categoryId, wk.week, day.day, p.name, pr)
      problemMeta == metaOf(tasksState, problemKey)
  IN  [id |-> encodeProblemRootId(problemKey),
       title |-> IF "titleOverride" \in DOMAIN problemMeta
                 THEN problemMeta.titleOverride ELSE pr,
       completed |-> problemMeta.completed,
       notes |-> problemMeta.notes,
       children |-> mapChildren(problemKey, problemMeta.subtasks)]

\* The synthesized parent task of a pattern.
patternTask(categoryId, tasksState, wk, day, p) ==
  LET parentKey == makeTaskKey(categoryId, wk.week, day.day, "pattern", p.name)
      parentMeta == metaOf(tasksState, parentKey)
  IN  [key |-> parentKey,
       title |-> p.name,
       completed |-> parentMeta.completed,
       notes |-> parentMeta.notes,
       subtasks |-> SeqMap(LAMBDA pr : problemNode(categoryId, tasksState, wk, day, p, pr),
                           p.problems),
       isPatternParent |-> TRUE]

activityTask(categoryId, tasksState, wk, day, act) ==
  LET key == makeTaskKey(categoryId, wk.week, day.day, "activity", act)
      meta == metaOf(tasksState, key)
  IN  [key |-> key, title |-> act, completed |-> meta.completed, notes |-> meta.notes,
       subtasks |-> meta.subtasks, isPatternParent |-> FALSE]

\* The body of the inner loop of buildSections: the section of one day.  The
\* weeks of the model's plans have no topic, so the title names the week.
buildSection(categoryId, plan, wk, day, tz) ==
  LET tasks == SeqMap(LAMBDA p : patternTask(categoryId, plan.tasks, wk, day, p), day.patterns)
               \o SeqMap(LAMBDA act : activityTask(categoryId, plan.tasks, wk, day, act),
                         day.activities)
      dates == sectionDates(plan.startDate, day.day, tz)
  IN  [id |-> ToString(wk.week) \o "-" \o day.day,
       title |-> "Week " \o ToString(wk.week),
       dayLabel |-> dates.dayLabel,
       dateLabel |-> dates.dateLabel,
       dateStart |-> dates.dateStart,
       dateEnd |-> dates.dateEnd,
       tags |-> {day.patterns[i].name : i \in 1..Len(day.patterns)} \ {""},
       tasks |-> tasks,
       stats |-> computeStatsWithSubtasks(tasks),
       week |-> wk.week,
       dayRaw |-> day.day]

\* The checkbox of a section task: onChange calls onToggleTask(t.key), which
\* the page binds to the store's toggleTask.
onToggleTaskCheckbox(st, categoryId, t) == toggleTask(st, categoryId, t.key)

RECURSIVE Flatten(_)
Flatten(ss) == IF ss = <<>> THEN <<>> ELSE Head(ss) \o Flatten(Tail(ss))

\* A buildSections that makes a section for the first day of a week only.
buildSectionsFirstDays(categoryId, plan, tz) ==
  Flatten(SeqMap(LAMBDA wk :
                   SeqMap(LAMBDA day : buildSection(categoryId, plan, wk, day, tz),
                          SubSeq(wk.days, 1, 1)),
                 plan.raw.schedule))

\* tz is the time zone the page runs in.
buildSections(categoryId, plan, tz) ==
  Flatten(SeqMap(LAMBDA wk :
                   SeqMap(LAMBDA day : buildSection(categoryId, plan, wk, day, tz), wk.days),
                 plan.raw.schedule))

(***************************************************************************)
(* SectionsList: the tag filter, the search filter and the grouping of the *)
(* sections by the view mode.                                              *)
(***************************************************************************)
\* String.prototype.includes.
includes(s, q) == \E i \in 0..(Len(s) - Len(q)) : SubSeq(s, i + 1, i + Len(q)) = q

\* `plan?.tasks?.[key]?.tags ?? []`.  No store operation writes tags; they
\* come with a state loaded from the server.
metaTags(tasksState, key) ==
  IF key \in DOMAIN tasksState /\ "tags" \in DOMAIN tasksState[key]
  THEN tasksState[key].tags
  ELSE {}

\* The options of the tag select: the pattern names and the tags of the
\* TaskMeta of the plan.
availableTags(plan) ==
  UNION {UNION {{wk.days[d].patterns[i].name : i \in 1..Len(wk.days[d].patterns)} \ {""}
                  : d \in 1..Len(wk.days)}
           : wk \in {plan.raw.schedule[w] : w \in 1..Len(plan.raw.schedule)}}
    \cup UNION {metaTags(plan.tasks, key) : key \in DOMAIN plan.tasks}

\* A tag filter that passes the tasks of every section that has a tag.
tagFilterAnyTag(plan, sec, selectedTag, t) ==
  selectedTag = "" \/ metaTags(plan.tasks, t.key) # {} \/ sec.tags # {}

\* The test of the tag filter; selectedTag "" is `All tags`.
tagFilter(plan, sec, selectedTag, t) ==
  \/ selectedTag = ""
  \/ selectedTag \in metaTags(plan.tasks, t.key)
  \/ selectedTag \in sec.tags
  \/ /\ t.isPatternParent
     /\ \E i \in 1..Len(t.subtasks) :
          LET parsed == parseEncodedSubtaskId(t.subtasks[i].id)
          IN  /\ parsed # <<>>
              /\ selectedTag \in metaTags(plan.tasks, parsed[1].problemKey)

\* The test of the search filter for a non-empty q.  No TaskMeta of the
\* model carries a titleOverride, so the title is t.title.
searchFilter(q, t) ==
  \/ includes(toLowerCase(t.title), q)
  \/ includes(toLowerCase(t.notes), q)
  \/ \E i \in 1..Len(t.subtasks) : includes(toLowerCase(t.subtasks[i].title), q)

\* A filter pass that keeps the stats the section had before the filters.
filterSectionKeepingStats(plan, sec, selectedTag, searchQuery) ==
  LET filteredTasks == SelectSeq(sec.tasks, LAMBDA t : tagFilter(plan, sec, selectedTag, t))
      q == toLowerCase(trim(searchQuery))
      searched == IF q # "" THEN SelectSeq(filteredTasks, LAMBDA t : searchFilter(q, t))
                  ELSE filteredTasks
  IN  [sec EXCEPT !.tasks = searched]

\* The body of visible.map: one section after the tag and search filters.
filterSection(plan, sec, selectedTag, searchQuery) ==
  LET filteredTasks == SelectSeq(sec.tasks, LAMBDA t : tagFilter(plan, sec, selectedTag, t))
      q == toLowerCase(trim(searchQuery))
      searched == IF q # "" THEN SelectSeq(filteredTasks, LAMBDA t : searchFilter(q, t))
                  ELSE filteredTasks
  IN  [sec EXCEPT !.tasks = searched, !.stats = computeStatsWithSubtasks(searched)]

\* getTime() compared: a is an earlier instant than b.
earlier(a, b) ==
  \/ a.date.y < b.date.y
  \/ a.date.y = b.date.y /\ a.date.m < b.date.m
  \/ a.date.y = b.date.y /\ a.date.m = b.date.m /\ a.date.d < b.date.d
  \/ a.date = b.date /\ a.hour < b.hour

\* new Date(0), the instant of getTime() = 0.
Epoch == [date |-> [y |-> 1970, m |-> 1, d |-> 1], hour |-> 0]

\* `x.dateStart?.getTime() ?? 0`.
startTimeOrZero(sec) == IF sec.dateStart = <<>> THEN Epoch ELSE sec.dateStart[1]

\* new Date(Math.min(...ds)) and new Date(Math.max(...de)) over the dates
\* that are not null; null when there is none.
minDate(dates) ==
  LET ds == {dates[i][1] : i \in {j \in 1..Len(dates) : dates[j] # <<>>}}
  IN  IF ds = {} THEN <<>> ELSE <<CHOOSE a \in ds : \A b \in ds : ~earlier(b, a)>>

maxDate(dates) ==
  LET de == {dates[i][1] : i \in {j \in 1..Len(dates) : dates[j] # <<>>}}
  IN  IF de = {} THEN <<>> ELSE <<CHOOSE a \in de : \A b \in de : ~earlier(a, b)>>

\* list.slice().sort(by dateStart)[0]: the sort is stable, so the first of
\* the sections with the least start time.
firstByStart(list) ==
  list[CHOOSE i \in 1..Len(list) :
         /\ \A j \in 1..Len(list) : ~earlier(startTimeOrZero(list[j]), startTimeOrZero(list[i]))
         /\ \A j \in 1..(i - 1) : earlier(startTimeOrZero(list[i]), startTimeOrZero(list[j]))]

getFullYear(instant, tz) == localFields(instant, tz).date.y

\* getMonth() counts the months from 0.
getMonth(instant, tz) == localFields(instant, tz).date.m - 1

\* `s.dateStart ?? s.dateEnd`.
groupDate(sec) == IF sec.dateStart # <<>> THEN sec.dateStart ELSE sec.dateEnd

monthKey(sec, tz) ==
  LET d == groupDate(sec)
  IN  IF d = <<>> THEN "no-date"
      ELSE ToString(getFullYear(d[1], tz)) \o "-" \o ToString(getMonth(d[1], tz))

quarterKey(sec, tz) ==
  LET d == groupDate(sec)
  IN  IF d = <<>> THEN "no-date"
      ELSE ToString(getFullYear(d[1], tz)) \o "-Q" \o ToString((getMonth(d[1], tz) \div 3) + 1)

halfKey(sec, tz) ==
  LET d == groupDate(sec)
  IN  IF d = <<>> THEN "no-date"
      ELSE ToString(getFullYear(d[1], tz)) \o "-"
             \o (IF getMonth(d[1], tz) < 6 THEN "H1" ELSE "H2")

yearKey(sec, tz) ==
  LET d == groupDate(sec)
  IN  IF d = <<>> THEN "no-date" ELSE ToString(getFullYear(d[1], tz))

\* a.localeCompare(b) < 0 for the group keys, which are written with the
\* characters below: punctuation sorts before digits, digits before letters,
\* and a string sorts after its proper prefixes.
CollationOrder == "-0123456789adehnoqt"

RECURSIVE localeBefore(_, _)
localeBefore(a, b) ==
  IF b = "" THEN FALSE
  ELSE IF a = "" THEN TRUE
  ELSE IF Head(a) = Head(b) THEN localeBefore(Tail(a), Tail(b))
  ELSE indexOf(CollationOrder, lowerChar(Head(a))) < indexOf(CollationOrder, lowerChar(Head(b)))

numberBefore(a, b) == a < b

\* Array.from(map.entries()).sort(...): the keys of the groups in the order
\* of the comparison, each with the sections that have it, in their order.
groupsOf(secs, KeyOf(_), Before(_, _)) ==
  LET keys == {KeyOf(secs[i]) : i \in 1..Len(secs)}
      keyAt(n) == CHOOSE k \in keys : Cardinality({j \in keys : Before(j, k)}) = n - 1
  IN  [n \in 1..Cardinality(keys) |->
         [key |-> keyAt(n), list |-> SelectSeq(secs, LAMBDA sec : KeyOf(sec) = keyAt(n))]]

\* s.replace('-', ' '): the first '-' only.
replaceFirstDash(s) ==
  LET at == indexOf(s, "-")
  IN  IF at = -1 THEN s ELSE SubSeq(s, 1, at) \o " " \o sliceFrom(s, at + 1)

LongMonthNames ==
  <<"January", "February", "March", "April", "May", "June", "July", "August",
    "September", "October", "November", "December">>

\* Intl.DateTimeFormat(undefined, { month: 'long', year: 'numeric' }).format.
monthYearFormat(instant, tz) ==
  LET c == localFields(instant, tz).date
  IN  LongMonthNames[c.m] \o " " \o ToString(c.y)

periodLabelOf(mode) ==
  CASE mode = "day" -> "Day-wise"
    [] mode = "week" -> "Grouped by Week"
    [] mode = "month" -> "Grouped by Month"
    [] mode = "quarter" -> "Grouped by Quarter"
    [] mode = "half" -> "Grouped by Half-year"
    [] mode = "year" -> "Grouped by Year"

\* The tasks of a list without the later tasks of a key already seen.
RECURSIVE firstOfEachKey(_, _)
firstOfEachKey(tasks, seen) ==
  IF tasks = <<>> THEN <<>>
  ELSE IF Head(tasks).key \in seen THEN firstOfEachKey(Tail(tasks), seen)
  ELSE <<Head(tasks)>> \o firstOfEachKey(Tail(tasks), seen \cup {Head(tasks).key})

\* A merged section that keeps one task per key.
groupedSectionOnePerKey(id, title, list, periodLabel) ==
  LET tasks == firstOfEachKey(Flatten(SeqMap(LAMBDA x : x.tasks, list)), {})
      first == firstByStart(list)
  IN  [id |-> id,
       title |-> title,
       dayLabel |-> "All days",
       dateLabel |-> periodLabel,
       dateStart |-> minDate(SeqMap(LAMBDA x : x.dateStart, list)),
       dateEnd |-> maxDate(SeqMap(LAMBDA x : x.dateEnd, list)),
       tags |-> UNION {list[i].tags : i \in 1..Len(list)},
       tasks |-> tasks,
       stats |-> computeStatsWithSubtasks(tasks),
       week |-> first.week,
       dayRaw |-> first.dayRaw]

\* grouped.push({...}): the section of one group.  The list of a group is
\* never empty, so `first` is a section.
groupedSection(id, title, list, periodLabel) ==
  LET tasks == Flatten(SeqMap(LAMBDA x : x.tasks, list))
      first == firstByStart(list)
  IN  [id |-> id,
       title |-> title,
       dayLabel |-> "All days",
       dateLabel |-> periodLabel,
       dateStart |-> minDate(SeqMap(LAMBDA x : x.dateStart, list)),
       dateEnd |-> maxDate(SeqMap(LAMBDA x : x.dateEnd, list)),
       tags |-> UNION {list[i].tags : i \in 1..Len(list)},
       tasks |-> tasks,
       stats |-> computeStatsWithSubtasks(tasks),
       week |-> first.week,
       dayRaw |-> first.dayRaw]

\* The sections of one view mode; 'day' leaves the day sections as they are.
groupByMode(secs, mode, periodLabel, tz) ==
  CASE mode = "week" ->
         SeqMap(LAMBDA g : groupedSection("week-" \o ToString(g.key), g.list[1].title,
                                          g.list, periodLabel),
                groupsOf(secs, LAMBDA sec : sec.week, numberBefore))
    [] mode = "month" ->
         SeqMap(LAMBDA g :
                  LET start == minDate(SeqMap(LAMBDA x : x.dateStart, g.list))
                  IN  groupedSection("month-" \o g.key,
                                     IF start # <<>> THEN monthYearFormat(start[1], tz)
                                     ELSE "No date",
                                     g.list, periodLabel),
                groupsOf(secs, LAMBDA sec : monthKey(sec, tz), localeBefore))
    [] mode = "quarter" ->
         SeqMap(LAMBDA g : groupedSection("quarter-" \o g.key,
                                          IF g.key = "no-date" THEN "No date" ELSE g.key,
                                          g.list, periodLabel),
                groupsOf(secs, LAMBDA sec : quarterKey(sec, tz), localeBefore))
    [] mode = "half" ->
         SeqMap(LAMBDA g : groupedSection("half-" \o g.key,
                                          IF g.key = "no-date" THEN "No date"
                                          ELSE replaceFirstDash(g.key),
                                          g.list, periodLabel),
                groupsOf(secs, LAMBDA sec : halfKey(sec, tz), localeBefore))
    [] mode = "year" ->
         SeqMap(LAMBDA g : groupedSection("year-" \o g.key,
                                          IF g.key = "no-date" THEN "No date" ELSE g.key,
                                          g.list, periodLabel),
                groupsOf(secs, LAMBDA sec : yearKey(sec, tz), localeBefore))
    [] OTHER -> secs

\* A `prepared` that never hides a section.
preparedKeepingEmpty(visible, plan, selectedTag, searchQuery, mode, periodLabel, tz) ==
  groupByMode(SeqMap(LAMBDA sec : filterSection(plan, sec, selectedTag, searchQuery), visible),
              mode, periodLabel, tz)

\* The useMemo of `prepared`: the filters, the grouping, and the sections
\* left without a task hidden while a filter is active.
prepared(visible, plan, selectedTag, searchQuery, mode, periodLabel, tz) ==
  LET secs == SeqMap(LAMBDA sec : filterSection(plan, sec, selectedTag, searchQuery), visible)
      grouped == groupByMode(secs, mode, periodLabel, tz)
      filtersActive == selectedTag # "" \/ trim(searchQuery) # ""
  IN  IF filtersActive THEN SelectSeq(grouped, LAMBDA sec : Len(sec.tasks) > 0) ELSE grouped

(***************************************************************************)
(* The state machine: the store after construction, and one action per     *)
(* store operation.  Inputs are drawn from small sets.                     *)
(***************************************************************************)
CategoryIds == {"c1"}

\* The plan of the tree-engine specification: one week, one day, one activity.
ActivityPlan ==
  [title |-> "Plan A",
   schedule |-> << [week |-> 1,
                    days |-> << [day |-> "1",
                                 patterns |-> <<>>,
                                 activities |-> <<"Read docs">>] >>] >>]

\* The plan of the section specification: a pattern with two problems, and
\* one activity.
PatternPlan ==
  [title |-> "Plan B",
   schedule |-> << [week |-> 1,
                    days |-> << [day |-> "1",
                                 patterns |-> << [name |-> "Two P",
                                                  problems |-> <<"2 Sum", "3Sum">>] >>,
                                 activities |-> <<"Read docs">>] >>] >>]

\* A plan imported without a start date.
NoStartDate == ""

ActivityKeyOf == [c \in CategoryIds |-> makeTaskKey(c, 1, "1", "activity", "Read docs")]
PatternKeyOf == [c \in CategoryIds |-> makeTaskKey(c, 1, "1", "pattern", "Two P")]
FirstProblemKeyOf == [c \in CategoryIds |-> makeTaskKey(c, 1, "1", "Two P", "2 Sum")]
SecondProblemKeyOf == [c \in CategoryIds |-> makeTaskKey(c, 1, "1", "Two P", "3Sum")]

\* The task keys the sections of PatternPlan show: the pattern parent, its
\* problems (as nodes under the parent) and the activity.
PatternPlanKeys ==
  [c \in CategoryIds |->
     {PatternKeyOf[c], FirstProblemKeyOf[c], SecondProblemKeyOf[c], ActivityKeyOf[c]}]

\* The plan of the task-removal specification: two weeks; a pattern with
\* two problems, two activities whose titles have the same slug, the same
\* activity title in two weeks, and a day that holds nothing.
RemovalPlan ==
  [title |-> "Plan C",
   schedule |-> << [week |-> 1,
                    days |-> << [day |-> "1",
                                 patterns |-> << [name |-> "Two P",
                                                  problems |-> <<"2 Sum", "3Sum">>] >>,
                                 activities |-> <<"Read docs">>],
                                [day |-> "2-3",
                                 patterns |-> <<>>,
                                 activities |-> <<"Rd", "rd!">>] >>],
                   [week |-> 2,
                    days |-> << [day |-> "1",
                                 patterns |-> <<>>,
                                 activities |-> <<"Read docs">>],
                                [day |-> "2",
                                 patterns |-> <<>>,
                                 activities |-> <<>>] >>] >>]

\* The keys derived from the items of a schedule: one per problem and per
\* activity, and one for the parent task of every pattern.
dayItemKeys(categoryId, wk, day) ==
  UNION {{makeTaskKey(categoryId, wk.week, day.day, day.patterns[p].name,
                      day.patterns[p].problems[q])
            : q \in 1..Len(day.patterns[p].problems)}
         : p \in 1..Len(day.patterns)}
    \cup {makeTaskKey(categoryId, wk.week, day.day, "activity", day.activities[a])
            : a \in 1..Len(day.activities)}

dayParentKeys(categoryId, wk, day) ==
  {makeTaskKey(categoryId, wk.week, day.day, "pattern", day.patterns[p].name)
     : p \in 1..Len(day.patterns)}

itemKeys(categoryId, schedule) ==
  UNION {UNION {dayItemKeys(categoryId, schedule[w], schedule[w].days[d])
                  : d \in 1..Len(schedule[w].days)}
         : w \in 1..Len(schedule)}

parentKeys(categoryId, schedule) ==
  UNION {UNION {dayParentKeys(categoryId, schedule[w], schedule[w].days[d])
                  : d \in 1..Len(schedule[w].days)}
         : w \in 1..Len(schedule)}

RemovalPlanKeys ==
  [c \in CategoryIds |->
     itemKeys(c, RemovalPlan.schedule) \cup parentKeys(c, RemovalPlan.schedule)]

\* The tasks the user ticks in the task-removal specification.
RemovalToggledKeys ==
  [c \in CategoryIds |->
     {makeTaskKey(c, 1, "1", "pattern", "Two P"),
      makeTaskKey(c, 1, "1", "Two P", "2 Sum"),
      makeTaskKey(c, 2, "1", "activity", "Read docs")}]

\* Subtask identifiers.  The reducer builds an identifier from the clock and
\* a random suffix; the model numbers them in the order of creation.  "s0"
\* is never generated, so it matches no node.
subtaskIdAt(n) == "s" \o ToString(n)

IdPool == {subtaskIdAt(i) : i \in 0..MaxNodes}

NewTitle == "t"
RenamedTitle == "u"
NewNotes == "n"

RECURSIVE nodeIds(_)
nodeIds(list) ==
  UNION {{list[i].id} \cup nodeIds(list[i].children) : i \in 1..Len(list)}

RECURSIVE editCount(_)
editCount(list) ==
  SeqSum(SeqMap(LAMBDA s : (IF s.title # NewTitle THEN 1 ELSE 0)
                           + (IF s.notes # "" THEN 1 ELSE 0)
                           + editCount(s.children),
                list))

RECURSIVE SetSum(_, _)
SetSum(Op(_), S) ==
  IF S = {} THEN 0 ELSE LET x == CHOOSE y \in S : TRUE IN Op(x) + SetSum(Op, S \ {x})

tasksOf(st, c) == IF c \in DOMAIN st.plans THEN st.plans[c].tasks ELSE EmptyMap

subtasksOf(st, c, key) == metaOf(tasksOf(st, c), key).subtasks

planEditCount(st, c) ==
  SetSum(LAMBDA k : editCount(st.plans[c].tasks[k].subtasks), DOMAIN tasksOf(st, c))

\* The time zone of the browser, in hours east of UTC.
UTC == 0

\* No pure function is under study in the specifications of the store.
NoCall == [op |-> "none"]

Init ==
  /\ state = EmptyState
  /\ clock = 0
  /\ zone = UTC
  /\ call = NoCall

ImportPlan(plan) ==
  \E c \in CategoryIds :
    /\ state' = importPlan(state, c, plan, NoStartDate)
    /\ UNCHANGED <<clock, call, zone>>

ToggleTask(keysOf) ==
  \E c \in CategoryIds : \E key \in keysOf[c] :
    /\ state' = toggleTask(state, c, key)
    /\ UNCHANGED <<clock, call, zone>>

AddSubtask(keyOf, maxNodes) ==
  \E c \in CategoryIds : \E parentId \in IdPool \cup {""} :
    /\ clock < maxNodes
    /\ clock' = clock + 1
    /\ UNCHANGED <<call, zone>>
    /\ state' = addSubtask(state, c, keyOf[c], NewTitle, "", parentId, subtaskIdAt(clock'))

ToggleSubtask(keyOf) ==
  \E c \in CategoryIds : \E subtaskId \in IdPool :
    /\ state' = toggleSubtask(state, c, keyOf[c], subtaskId)
    /\ UNCHANGED <<clock, call, zone>>

RemoveSubtask(keyOf) ==
  \E c \in CategoryIds : \E subtaskId \in IdPool :
    /\ state' = removeSubtask(state, c, keyOf[c], subtaskId)
    /\ UNCHANGED <<clock, call, zone>>

SetSubtaskNotes(keyOf) ==
  \E c \in CategoryIds : \E subtaskId \in IdPool :
    /\ state' = setSubtaskNotes(state, c, keyOf[c], subtaskId, NewNotes)
    /\ planEditCount(state', c) <= MaxEdits
    /\ UNCHANGED <<clock, call, zone>>

RenameSubtask(keyOf) ==
  \E c \in CategoryIds : \E subtaskId \in IdPool :
    /\ state' = renameSubtask(state, c, keyOf[c], subtaskId, RenamedTitle)
    /\ planEditCount(state', c) <= MaxEdits
    /\ UNCHANGED <<clock, call, zone>>

RemoveTask(keysOf) ==
  \E c \in CategoryIds : \E key \in keysOf[c] :
    /\ state' = removeTask(state, c, key)
    /\ UNCHANGED <<clock, call, zone>>

\* A signed-in client reloads: the server answers GET /tasks/state from the
\* state the client has saved, and the client takes the answer as its state.
\* The user has plans (a user without plans is given the server's seed plan).
GetTasksState ==
  /\ DOMAIN state.plans # {}
  /\ state' = getTasksState(state)
  /\ UNCHANGED <<clock, call, zone>>

(***************************************************************************)
(* Spec: the subtask tree engine on the activity of ActivityPlan.          *)
(***************************************************************************)
Next ==
  \/ ImportPlan(ActivityPlan)
  \/ ToggleTask([c \in CategoryIds |-> {ActivityKeyOf[c]}])
  \/ AddSubtask(ActivityKeyOf, MaxNodes)
  \/ ToggleSubtask(ActivityKeyOf)
  \/ RemoveSubtask(ActivityKeyOf)

Spec == Init /\ [][Next]_vars

(***************************************************************************)
(* SpecEdits: the same activity, with the notes and the titles of its      *)
(* subtasks edited.                                                        *)
(***************************************************************************)
NextEdits ==
  \/ ImportPlan(ActivityPlan)
  \/ AddSubtask(ActivityKeyOf, MaxEditNodes)
  \/ ToggleSubtask(ActivityKeyOf)
  \/ SetSubtaskNotes(ActivityKeyOf)
  \/ RenameSubtask(ActivityKeyOf)

SpecEdits == Init /\ [][NextEdits]_vars

(***************************************************************************)
(* SpecTwins: the subtasks of the activity when two of them receive the    *)
(* same id.  addSubtask builds the id from Date.now() and five characters  *)
(* of Math.random(); nothing compares it with the ids in the tree, so the  *)
(* id of a new node is any member of a small set.                          *)
(***************************************************************************)
TwinIds == {subtaskIdAt(1), subtaskIdAt(2)}

AddSubtaskAnyId(keyOf, maxNodes) ==
  \E c \in CategoryIds : \E parentId \in TwinIds \cup {""} : \E id \in TwinIds :
    /\ clock < maxNodes
    /\ clock' = clock + 1
    /\ UNCHANGED <<call, zone>>
    /\ state' = addSubtask(state, c, keyOf[c], NewTitle, "", parentId, id)

NextTwins ==
  \/ ImportPlan(ActivityPlan)
  \/ AddSubtaskAnyId(ActivityKeyOf, MaxNodes)
  \/ ToggleSubtask(ActivityKeyOf)
  \/ RemoveSubtask(ActivityKeyOf)
  \/ SetSubtaskNotes(ActivityKeyOf)
  \/ RenameSubtask(ActivityKeyOf)

SpecTwins == Init /\ [][NextTwins]_vars

(***************************************************************************)
(* SpecSections: the tasks of PatternPlan; subtasks are given to the first *)
(* problem of the pattern.                                                 *)
(***************************************************************************)
NextSections ==
  \/ ImportPlan(PatternPlan)
  \/ ToggleTask(PatternPlanKeys)
  \/ AddSubtask(FirstProblemKeyOf, MaxProblemNodes)
  \/ ToggleSubtask(FirstProblemKeyOf)
  \/ RemoveSubtask(FirstProblemKeyOf)

SpecSections == Init /\ [][NextSections]_vars

(***************************************************************************)
(* SpecTasks: tasks of RemovalPlan are ticked and removed.                 *)
(***************************************************************************)
NextTasks ==
  \/ ImportPlan(RemovalPlan)
  \/ ToggleTask(RemovalToggledKeys)
  \/ RemoveTask(RemovalPlanKeys)

SpecTasks == Init /\ [][NextTasks]_vars

(***************************************************************************)
(* SpecKeys: makeTaskKey as a pure function.  The initial states draw its  *)
(* arguments, the action applies it.                                       *)
(***************************************************************************)
KeyWeeks == {1, 11}
KeyDays == {"1", "11", "2-3", "1__x"}
KeyBuckets == {"Two P", "two-p", "activity", "x"}
KeyTitles == {"2 Sum", "2-sum", "Rd", "rd!", ""}

KeyTuples ==
  [week : KeyWeeks, day : KeyDays, bucket : KeyBuckets, title : KeyTitles]

InitKeys ==
  /\ state = EmptyState
  /\ clock = 0
  /\ zone = UTC
  /\ call \in {[op |-> "makeTaskKey", categoryId |-> c, args |-> t, done |-> FALSE, key |-> ""]
                 : c \in CategoryIds, t \in KeyTuples}

MakeTaskKey ==
  /\ call.op = "makeTaskKey"
  /\ ~call.done
  /\ call' = [call EXCEPT !.done = TRUE,
                          !.key = makeTaskKey(call.categoryId, call.args.week, call.args.day,
                                              call.args.bucket, call.args.title)]
  /\ UNCHANGED <<state, clock, zone>>

NextKeys == MakeTaskKey

SpecKeys == InitKeys /\ [][NextKeys]_vars

(***************************************************************************)
(* SpecSlug: slug as a pure function, applied once and then to its result. *)
(***************************************************************************)
SlugAlphabet == {"a", "B", "1", "-", "_"}

RECURSIVE StringsUpTo(_)
StringsUpTo(n) ==
  IF n = 0 THEN {""}
  ELSE StringsUpTo(n - 1) \cup {s \o c : s \in StringsUpTo(n - 1), c \in SlugAlphabet}

SlugInputs == StringsUpTo(MaxSlugLen)

InitSlug ==
  /\ state = EmptyState
  /\ clock = 0
  /\ zone = UTC
  /\ call \in {[op |-> "slug", arg |-> s, applied |-> 0, once |-> "", twice |-> ""]
                 : s \in SlugInputs}

Slug ==
  /\ call.op = "slug"
  /\ call.applied = 0
  /\ call' = [call EXCEPT !.applied = 1, !.once = slug(call.arg)]
  /\ UNCHANGED <<state, clock, zone>>

SlugAgain ==
  /\ call.op = "slug"
  /\ call.applied = 1
  /\ call' = [call EXCEPT !.applied = 2, !.twice = slug(call.once)]
  /\ UNCHANGED <<state, clock, zone>>

NextSlug == Slug \/ SlugAgain

SpecSlug == InitSlug /\ [][NextSlug]_vars

(***************************************************************************)
(* SpecSeed: the tasks of PatternPlan are ticked, and the state is         *)
(* reloaded from the server, which seeds the missing TaskMeta.             *)
(***************************************************************************)
NextSeed ==
  \/ ImportPlan(PatternPlan)
  \/ ToggleTask(PatternPlanKeys)
  \/ GetTasksState

SpecSeed == Init /\ [][NextSeed]_vars

(***************************************************************************)
(* SpecDates: buildSections as a pure function of a plan, its start date   *)
(* and the time zone of the browser.                                       *)
(***************************************************************************)
DayStrings == {"1", "3-4", "3-4-5", "", "x", "2x", " 3 - 4 ", "x-2", "31-", "0", "4-3"}
StartDates == {"", "2024-01-01", "2024-02-27", "2023-12-30"}
Zones == {-5, 0, 5}

\* Two weeks and three days, the first and the third with the same day string.
DatePlan(d1, d2) ==
  [title |-> "Plan D",
   schedule |-> << [week |-> 1,
                    days |-> << [day |-> d1, patterns |-> <<>>,
                                 activities |-> <<"Read docs">>],
                                [day |-> d2,
                                 patterns |-> << [name |-> "Two P",
                                                  problems |-> <<"2 Sum">>] >>,
                                 activities |-> <<>>] >>],
                   [week |-> 2,
                    days |-> << [day |-> d1, patterns |-> <<>>,
                                 activities |-> <<"Rd">>] >>] >>]

\* One week, one day, one activity.
OneDayPlan(d1) ==
  [title |-> "Plan A",
   schedule |-> << [week |-> 1,
                    days |-> << [day |-> d1, patterns |-> <<>>,
                                 activities |-> <<"Read docs">>] >>] >>]

DatePlans ==
  {DatePlan(d1, d2) : d1, d2 \in DayStrings} \cup {OneDayPlan(d1) : d1 \in DayStrings}

InitDates ==
  /\ state = EmptyState
  /\ clock = 0
  /\ zone \in Zones
  /\ call \in {[op |-> "buildSections", categoryId |-> c,
                plan |-> [title |-> raw.title, startDate |-> startDate, raw |-> raw,
                          tasks |-> EmptyMap],
                done |-> FALSE, sections |-> <<>>]
                 : c \in CategoryIds, raw \in DatePlans, startDate \in StartDates}

BuildSections ==
  /\ call.op = "buildSections"
  /\ ~call.done
  /\ call' = [call EXCEPT !.done = TRUE,
                          !.sections = buildSections(call.categoryId, call.plan, zone)]
  /\ UNCHANGED <<state, clock, zone>>

NextDates == BuildSections

SpecDates == InitDates /\ [][NextDates]_vars

(***************************************************************************)
(* SpecIds: the ids of the nodes shown under a pattern parent.  The        *)
(* initial states draw a problem of an imported plan and, for a nested     *)
(* node, the id of one of its subtasks; the id is encoded when the node is *)
(* rendered and decoded when one of its controls is used.                  *)
(***************************************************************************)
IdWeeks == {1, 2}
IdDays == {"1", "2-3", "1#2", "#"}
IdPatterns == {"Two P", "C#"}
IdProblems == {"2 Sum", "#1"}

IdProblemKeys ==
  {makeTaskKey(c, w, d, p, t)
     : c \in CategoryIds, w \in IdWeeks, d \in IdDays, p \in IdPatterns, t \in IdProblems}

InitIds ==
  /\ state = EmptyState
  /\ clock = 0
  /\ zone = UTC
  /\ call \in {[op |-> "problemNode", problemKey |-> k, subId |-> sub,
                stage |-> "new", id |-> "", parsed |-> <<>>]
                 : k \in IdProblemKeys, sub \in {<<>>} \cup {<<i>> : i \in IdPool}}

EncodeProblemId ==
  /\ call.op = "problemNode"
  /\ call.stage = "new"
  /\ call' = [call EXCEPT !.stage = "encoded",
                          !.id = IF call.subId = <<>>
                                 THEN encodeProblemRootId(call.problemKey)
                                 ELSE encodeProblemSubId(call.problemKey, call.subId[1])]
  /\ UNCHANGED <<state, clock, zone>>

ParseEncodedSubtaskId ==
  /\ call.op = "problemNode"
  /\ call.stage = "encoded"
  /\ call' = [call EXCEPT !.stage = "parsed", !.parsed = parseEncodedSubtaskId(call.id)]
  /\ UNCHANGED <<state, clock, zone>>

NextIds == EncodeProblemId \/ ParseEncodedSubtaskId

SpecIds == InitIds /\ [][NextIds]_vars

(***************************************************************************)
(* SpecImport: the two import paths.  A parsed JSON text is an object with *)
(* its fields, an array with its items, or another value (a number, a      *)
(* string, null).                                                          *)
(***************************************************************************)
JsonTitles == {"A", "B", "  "}
JsonSchedules == {<<>>, ActivityPlan.schedule, PatternPlan.schedule, RemovalPlan.schedule}

\* Objects with a title, with and without a schedule field.
JsonObjects ==
  {[kind |-> "object", fields |-> [title |-> t]] : t \in JsonTitles}
    \cup {[kind |-> "object", fields |-> [title |-> t, schedule |-> sch]]
            : t \in JsonTitles, sch \in JsonSchedules}

JsonOther == [kind |-> "other"]

JsonInputs ==
  JsonObjects \cup {JsonOther, [kind |-> "array", items |-> <<>>]}
    \cup {[kind |-> "array", items |-> <<o>>] : o \in JsonObjects \cup {JsonOther}}

\* pick inside normalizePlanInput; null is <<>>.
pick(obj) ==
  IF obj.kind = "other" THEN <<>>
  ELSE LET schedule == IF obj.kind = "object" /\ "schedule" \in DOMAIN obj.fields
                       THEN obj.fields.schedule ELSE <<>>
           title == IF obj.kind = "object" /\ "title" \in DOMAIN obj.fields
                       /\ trim(obj.fields.title) # ""
                    THEN obj.fields.title ELSE "Imported Plan"
       IN  IF Len(schedule) = 0 THEN <<>>
           ELSE << [title |-> title, schedule |-> schedule] >>

normalizePlanInput(input) ==
  IF input.kind = "array"
  THEN (IF Len(input.items) = 0 THEN <<>> ELSE pick(input.items[1]))
  ELSE pick(input)

\* The import form of the home page and the import modal of the tasks page
\* after construction: no plan loaded, nothing handed to the store.
InitImport ==
  /\ state = EmptyState
  /\ clock = 0
  /\ zone = UTC
  /\ call = [op |-> "import", fileJson |-> <<>>, dispatched |-> <<>>]

\* handlePasteImport (and reader.onload of handleFile): the parsed text is
\* normalized and kept, or refused.
HandlePasteImport ==
  /\ call.op = "import"
  /\ \E input \in JsonInputs :
       call' = [call EXCEPT !.fileJson = normalizePlanInput(input)]
  /\ UNCHANGED <<state, clock, zone>>

\* doImport with a plan name given: the loaded plan goes to the store; with
\* no plan loaded the form only shows a message.
DoImport ==
  /\ call.op = "import"
  /\ call.fileJson # <<>>
  /\ \E c \in CategoryIds :
       state' = importPlan(state, c, call.fileJson[1], NoStartDate)
  /\ call' = [call EXCEPT !.fileJson = <<>>, !.dispatched = call.fileJson]
  /\ UNCHANGED <<clock, zone>>

\* onImport of the import modal: the parsed text goes to the store as it is.
\* The texts drawn here are objects with a title.
OnImport ==
  /\ call.op = "import"
  /\ \E c \in CategoryIds, input \in JsonObjects :
       /\ state' = importPlan(state, c, input.fields, NoStartDate)
       /\ call' = [call EXCEPT !.dispatched = <<input.fields>>]
  /\ UNCHANGED <<clock, zone>>

NextImport == HandlePasteImport \/ DoImport \/ OnImport

SpecImport == InitImport /\ [][NextImport]_vars

(***************************************************************************)
(* SpecViews: the sections the page shows, as a function of the plan, the  *)
(* view mode, the selected tag and the search query.                       *)
(***************************************************************************)
\* Two weeks; with the start dates below the days fall in two months: in
\* December and January, in September and October, in October and November.
ViewPlan ==
  [title |-> "Plan V",
   schedule |-> << [week |-> 1,
                    days |-> << [day |-> "1",
                                 patterns |-> << [name |-> "Two P",
                                                  problems |-> <<"2 Sum", "3Sum">>] >>,
                                 activities |-> <<"Read docs">>],
                                [day |-> "3-4", patterns |-> <<>>,
                                 activities |-> <<"Rd">>] >>],
                   [week |-> 2,
                    days |-> << [day |-> "8",
                                 patterns |-> << [name |-> "Graphs",
                                                  problems |-> <<"BFS">>] >>,
                                 activities |-> <<"Sum up">>] >>] >>]

ViewStartDates == {"", "2023-12-30", "2024-09-29", "2024-10-30"}
ViewZones == {-5, 0}
ViewModes == {"day", "week", "month", "quarter", "half", "year"}
ViewQueries == {"", "  ", " SUM ", "R", "zz"}

\* A tag that stays selected after the pattern it named has left the plan.
StaleTag == "zz"

ViewProblemKeyOf == [c \in CategoryIds |-> makeTaskKey(c, 1, "1", "Two P", "2 Sum")]
ViewActivityKeyOf == [c \in CategoryIds |-> makeTaskKey(c, 1, "3-4", "activity", "Rd")]
ViewNestedKeyOf == [c \in CategoryIds |-> makeTaskKey(c, 1, "1", "activity", "Read docs")]
ViewTaggedKeyOf == [c \in CategoryIds |-> makeTaskKey(c, 2, "8", "Graphs", "BFS")]

\* The subtasks of 'Read docs': a completed node above a completed and an
\* open leaf, as toggleSubtask on the first leaf leaves them.
ViewSubtasks ==
  << [id |-> subtaskIdAt(0), title |-> NewTitle, completed |-> FALSE, notes |-> "",
      children |-> << [id |-> subtaskIdAt(1), title |-> NewTitle, completed |-> TRUE,
                       notes |-> "", children |-> <<>>],
                      [id |-> subtaskIdAt(2), title |-> NewTitle, completed |-> FALSE,
                       notes |-> "", children |-> <<>>] >>] >>

\* The TaskMeta of the plan: the tasks of `done` ticked, 'Read docs' with
\* subtasks when `nested`, and a tag on 'BFS' when `tagged`.
viewTasks(c, done, nested, tagged) ==
  [key \in done \cup (IF nested THEN {ViewNestedKeyOf[c]} ELSE {})
                \cup (IF tagged THEN {ViewTaggedKeyOf[c]} ELSE {}) |->
     IF key = ViewNestedKeyOf[c]
     THEN [completed |-> FALSE, notes |-> "", subtasksDefined |-> TRUE,
           subtasks |-> ViewSubtasks]
     ELSE IF key = ViewTaggedKeyOf[c]
     THEN [completed |-> FALSE, notes |-> "", subtasksDefined |-> FALSE,
           subtasks |-> <<>>, tags |-> {"hot"}]
     ELSE [completed |-> TRUE, notes |-> "", subtasksDefined |-> FALSE, subtasks |-> <<>>]]

\* A plan whose second week has one day, which holds nothing.
EmptyDayPlan ==
  [title |-> "Plan E",
   schedule |-> << [week |-> 1,
                    days |-> << [day |-> "1", patterns |-> <<>>,
                                 activities |-> <<"Rd">>] >>],
                   [week |-> 2,
                    days |-> << [day |-> "8", patterns |-> <<>>,
                                 activities |-> <<>>] >>] >>]

\* A plan whose first week lists the same day, with the same activity, twice.
TwinDayPlan ==
  [title |-> "Plan T",
   schedule |-> << [week |-> 1,
                    days |-> << [day |-> "1", patterns |-> <<>>,
                                 activities |-> <<"Rd">>],
                                [day |-> "1", patterns |-> <<>>,
                                 activities |-> <<"Rd">>] >>],
                   [week |-> 2,
                    days |-> << [day |-> "8", patterns |-> <<>>,
                                 activities |-> <<"Rd">>] >>] >>]

ViewPlans ==
  UNION {{[title |-> ViewPlan.title, startDate |-> startDate, raw |-> ViewPlan,
           tasks |-> viewTasks(c, done, nested, tagged)]
            : startDate \in ViewStartDates,
              done \in SUBSET {ViewProblemKeyOf[c], ViewActivityKeyOf[c]},
              nested \in BOOLEAN, tagged \in BOOLEAN}
           : c \in CategoryIds}
    \cup {[title |-> raw.title, startDate |-> startDate, raw |-> raw, tasks |-> EmptyMap]
            : startDate \in ViewStartDates, raw \in {EmptyDayPlan, TwinDayPlan}}

InitViews ==
  /\ state = EmptyState
  /\ clock = 0
  /\ zone \in ViewZones
  /\ call \in UNION {{[op |-> "prepared", categoryId |-> c, plan |-> plan,
                       selectedTag |-> tag, searchQuery |-> query, mode |-> mode,
                       done |-> FALSE, visible |-> <<>>, sections |-> <<>>]
                        : c \in CategoryIds,
                          tag \in {"", StaleTag} \cup availableTags(plan),
                          query \in ViewQueries, mode \in ViewModes}
                       : plan \in ViewPlans}

\* One render of SectionsList: `visible`, then `prepared`.
Prepare ==
  /\ call.op = "prepared"
  /\ ~call.done
  /\ LET visible == buildSections(call.categoryId, call.plan, zone)
     IN  call' = [call EXCEPT !.done = TRUE,
                              !.visible = visible,
                              !.sections = prepared(visible, call.plan, call.selectedTag,
                                                    call.searchQuery, call.mode,
                                                    periodLabelOf(call.mode), zone)]
  /\ UNCHANGED <<state, clock, zone>>

NextViews == Prepare

SpecViews == InitViews /\ [][NextViews]_vars

(***************************************************************************)
(* Vocabulary of the properties.  These definitions describe trees as sets *)
(* of nodes and do not use the reducer's own traversals.                   *)
(***************************************************************************)
\* Every node of a subtask list, at every depth.
RECURSIVE allNodes(_)
allNodes(list) ==
  UNION {{list[i]} \cup allNodes(list[i].children) : i \in 1..Len(list)}

\* The propagation rule at one node: a node that has children is completed
\* exactly when all its children are.
RuleAt(n) ==
  Len(n.children) > 0 =>
    (n.completed <=> \A i \in 1..Len(n.children) : n.children[i].completed)

RuleHolds(list) == \A n \in allNodes(list) : RuleAt(n)

\* The task-level rule: the flag of the task agrees with its root subtasks.
TaskRuleHolds(meta) ==
  meta.completed <=>
    (Len(meta.subtasks) > 0 /\ \A i \in 1..Len(meta.subtasks) : meta.subtasks[i].completed)

\* The ids of a node and of all its descendants.
subtreeIds(n) == {n.id} \cup nodeIds(n.children)

\* The node with the given id (ids are unique in the trees of the model).
nodeWithId(list, id) == CHOOSE n \in allNodes(list) : n.id = id

\* A tree as a set of placements <<parent id, position, id, title, completed,
\* notes>>; the parent of a root is "".
RECURSIVE placements(_, _)
placements(list, parentId) ==
  UNION {{<<parentId, i, list[i].id, list[i].title, list[i].completed, list[i].notes>>}
           \cup placements(list[i].children, list[i].id) : i \in 1..Len(list)}

childCount(list, parentId) == Cardinality({pl \in placements(list, "") : pl[1] = parentId})

\* The TaskMeta of the activity / of the first problem in a state.
activityMeta(st, c) == metaOf(tasksOf(st, c), ActivityKeyOf[c])
activityTree(st, c) == activityMeta(st, c).subtasks

(***************************************************************************)
(* Properties of the subtask tree engine (checked under Spec).  Each one   *)
(* applies a reducer case to the reachable state, for every input.         *)
(***************************************************************************)
\* C1: after toggleSubtask with an id present in the tree, and after
\* removeSubtask, every node that has children is completed exactly when all
\* its children are, at every depth and in every branch.
PropagationAfterToggleOrRemove ==
  \A c \in CategoryIds : \A subtaskId \in IdPool :
    /\ subtaskId \in nodeIds(activityTree(state, c)) =>
         RuleHolds(activityTree(toggleSubtask(state, c, ActivityKeyOf[c], subtaskId), c))
    /\ RuleHolds(activityTree(removeSubtask(state, c, ActivityKeyOf[c], subtaskId), c))

\* C1 witness: a tree in which a node off the path to the toggled node breaks
\* the rule before the call, and a node two levels deep exists.
PropagationWitness ==
  \E c \in CategoryIds : \E subtaskId \in nodeIds(activityTree(state, c)) :
    \E n \in allNodes(activityTree(state, c)) :
      /\ ~RuleAt(n)
      /\ subtaskId \notin subtreeIds(n)
      /\ activityTree(toggleSubtask(state, c, ActivityKeyOf[c], subtaskId), c)
           # activityTree(state, c)

\* C5: toggling a subtask that has children sets it and every descendant to
\* the negation of its previous value, whatever they held; toggling it again
\* sets all of them to the opposite value.
ToggleParentSubtaskUniform ==
  \A c \in CategoryIds : \A subtaskId \in nodeIds(activityTree(state, c)) :
    LET target == nodeWithId(activityTree(state, c), subtaskId)
        once == toggleSubtask(state, c, ActivityKeyOf[c], subtaskId)
        twice == toggleSubtask(once, c, ActivityKeyOf[c], subtaskId)
    IN  Len(target.children) > 0 =>
          /\ nodeIds(activityTree(once, c)) = nodeIds(activityTree(state, c))
          /\ \A n \in allNodes(activityTree(once, c)) :
               n.id \in subtreeIds(target) => n.completed = ~target.completed
          /\ \A n \in allNodes(activityTree(twice, c)) :
               n.id \in subtreeIds(target) => n.completed = target.completed

\* C5 witness: a subtask with two descendants that hold different values, one
\* of them holding the value the toggle is about to set.
ToggleParentWitness ==
  \E c \in CategoryIds : \E target \in allNodes(activityTree(state, c)) :
    /\ \E n, m \in allNodes(target.children) : n.completed /\ ~m.completed
    /\ toggleSubtask(state, c, ActivityKeyOf[c], target.id) # state

\* C6 as stated: after toggleSubtask or removeSubtask the task's flag is true
\* exactly when it has a root subtask and all its root subtasks are completed.
TaskFlagAfterSubtaskOp ==
  \A c \in CategoryIds : \A subtaskId \in IdPool :
    /\ TaskRuleHolds(activityMeta(toggleSubtask(state, c, ActivityKeyOf[c], subtaskId), c))
    /\ TaskRuleHolds(activityMeta(removeSubtask(state, c, ActivityKeyOf[c], subtaskId), c))

\* C6 amended: the same, after a toggleSubtask whose id is present in the
\* tree or a removeSubtask on a task whose TaskMeta has a subtasks list.
TaskFlagAfterEffectiveSubtaskOp ==
  \A c \in CategoryIds : \A subtaskId \in IdPool :
    /\ subtaskId \in nodeIds(activityTree(state, c)) =>
         TaskRuleHolds(activityMeta(toggleSubtask(state, c, ActivityKeyOf[c], subtaskId), c))
    /\ activityMeta(state, c).subtasksDefined =>
         TaskRuleHolds(activityMeta(removeSubtask(state, c, ActivityKeyOf[c], subtaskId), c))

\* C6 witness: the flag disagrees with the root subtasks before the call, and
\* removing the last root subtask changes it.
TaskFlagWitness ==
  \E c \in CategoryIds : \E subtaskId \in nodeIds(activityTree(state, c)) :
    /\ ~TaskRuleHolds(activityMeta(state, c))
    /\ Len(activityTree(state, c)) = 1
    /\ activityTree(state, c)[1].id = subtaskId
    /\ activityMeta(removeSubtask(state, c, ActivityKeyOf[c], subtaskId), c).completed
         # activityMeta(state, c).completed

\* C7: toggleTask on a task that has subtasks negates the task's flag and
\* sets every subtask, at every depth, to the new value.
ToggleTaskCascades ==
  \A c \in CategoryIds :
    LET pre == activityMeta(state, c)
        post == activityMeta(toggleTask(state, c, ActivityKeyOf[c]), c)
    IN  Len(pre.subtasks) > 0 =>
          /\ post.completed = ~pre.completed
          /\ nodeIds(post.subtasks) = nodeIds(pre.subtasks)
          /\ \A n \in allNodes(post.subtasks) : n.completed = ~pre.completed

\* C7 witness: a task whose tree has a node below the roots that holds the
\* task's present value, so the toggle has to change it.
ToggleTaskWitness ==
  \E c \in CategoryIds : \E r \in allNodes(activityTree(state, c)) :
    \E n \in allNodes(r.children) :
      /\ n.completed = activityMeta(state, c).completed
      /\ \E m \in allNodes(activityTree(state, c)) : m.completed # n.completed

\* C8: addSubtask places the new node exactly once, as the last child of the
\* node whose id is parentId (at any depth) or, when parentId is absent or
\* matches no node, as the last root; every existing node stays in place.
AddSubtaskPlacesOnce ==
  \A c \in CategoryIds : \A parentId \in IdPool \cup {""} :
    LET tree == activityTree(state, c)
        id == subtaskIdAt(clock + 1)
        post == activityTree(addSubtask(state, c, ActivityKeyOf[c], NewTitle, "", parentId, id), c)
        parent == IF parentId \in nodeIds(tree) THEN parentId ELSE ""
    IN  c \in DOMAIN state.plans =>
          placements(post, "") =
            placements(tree, "")
              \cup {<<parent, childCount(tree, parent) + 1, id, NewTitle, FALSE, "">>}

\* C8 witness: the parent is below the roots and already has a child, and a
\* parentId that matches no node is at hand in the same state.
AddSubtaskWitness ==
  \E c \in CategoryIds : \E parentId \in nodeIds(activityTree(state, c)) :
    /\ \E pl \in placements(activityTree(state, c), "") : pl[3] = parentId /\ pl[1] # ""
    /\ childCount(activityTree(state, c), parentId) > 0
    /\ subtaskIdAt(0) \notin nodeIds(activityTree(state, c))

\* C9: toggleSubtask with an id that matches no node (or on a task without
\* subtasks) returns the state unchanged: plans, metadata and progress.
ToggleUnknownSubtaskUnchanged ==
  \A c \in CategoryIds : \A subtaskId \in IdPool :
    subtaskId \notin nodeIds(activityTree(state, c)) =>
      toggleSubtask(state, c, ActivityKeyOf[c], subtaskId) = state

\* C9 witness: a state in which a recomputation would show: a node breaks the
\* propagation rule, the task flag disagrees with the roots and the stored
\* progress is stale.
ToggleUnknownWitness ==
  \E c \in DOMAIN state.plans :
    /\ ~RuleHolds(activityTree(state, c))
    /\ ~TaskRuleHolds(activityMeta(state, c))
    /\ state.progress[c] # computeProgressForPlan(c, state.plans[c])
    /\ \E subtaskId \in IdPool : subtaskId \notin nodeIds(activityTree(state, c))

\* C10 as stated: removeSubtask, setSubtaskNotes and renameSubtask with an id
\* that matches no node leave the task's flag and its whole tree as they were.
UnknownSubtaskIdIsNoOp ==
  \A c \in CategoryIds : \A subtaskId \in IdPool :
    subtaskId \notin nodeIds(activityTree(state, c)) =>
      /\ activityMeta(removeSubtask(state, c, ActivityKeyOf[c], subtaskId), c)
           = activityMeta(state, c)
      /\ activityMeta(setSubtaskNotes(state, c, ActivityKeyOf[c], subtaskId, NewNotes), c)
           = activityMeta(state, c)
      /\ activityMeta(renameSubtask(state, c, ActivityKeyOf[c], subtaskId, RenamedTitle), c)
           = activityMeta(state, c)

(***************************************************************************)
(* Properties of the section projection (checked under SpecSections).      *)
(***************************************************************************)
sectionsOf(st, c) ==
  IF c \in DOMAIN st.plans THEN buildSections(c, st.plans[c], zone) ELSE <<>>

\* The tasks shown by the sections of a category.
shownTasks(st, c) ==
  UNION {{sectionsOf(st, c)[i].tasks[j] : j \in 1..Len(sectionsOf(st, c)[i].tasks)}
           : i \in 1..Len(sectionsOf(st, c))}

\* The keys of the problems of the pattern of PatternPlan.
problemKeys(c) == {FirstProblemKeyOf[c], SecondProblemKeyOf[c]}

\* The units computeStats is to count in a task list: the leaves of the tasks
\* that have subtasks, and the tasks that have none; <<task, node id, done>>.
leafUnits(tasks) ==
  UNION {IF Len(tasks[j].subtasks) > 0
         THEN {<<j, n.id, n.completed>> :
                 n \in {m \in allNodes(tasks[j].subtasks) : Len(m.children) = 0}}
         ELSE {<<j, "", tasks[j].completed>>}
           : j \in 1..Len(tasks)}

unitStats(units) ==
  [completed |-> Cardinality({u \in units : u[3]}), total |-> Cardinality(units)]

\* The same units for the store's progress: one item per problem or activity.
itemUnits(tasksState, keys) ==
  UNION {IF Len(metaOf(tasksState, k).subtasks) > 0
         THEN {<<k, n.id, n.completed>> :
                 n \in {m \in allNodes(metaOf(tasksState, k).subtasks) : Len(m.children) = 0}}
         ELSE {<<k, "", metaOf(tasksState, k).completed>>}
           : k \in keys}

\* C2 as stated: toggling the synthetic parent task of a pattern from
\* incomplete sets completed on the TaskMeta of every one of its problems.
TogglePatternParentCompletesProblems ==
  \A c \in CategoryIds : \A t \in shownTasks(state, c) :
    (t.isPatternParent /\ Len(t.subtasks) > 0 /\ ~t.completed) =>
      \A pk \in problemKeys(c) :
        metaOf(tasksOf(onToggleTaskCheckbox(state, c, t), c), pk).completed

\* C3 as stated: a pattern parent that has problems shows completed exactly
\* when the TaskMeta of every one of its problems is completed.
PatternParentReflectsProblems ==
  \A c \in CategoryIds : \A t \in shownTasks(state, c) :
    (t.isPatternParent /\ Len(t.subtasks) > 0) =>
      (t.completed <=> \A pk \in problemKeys(c) : metaOf(tasksOf(state, c), pk).completed)

\* C4: the statistics of a task list count the leaf subtasks of the tasks that
\* have subtasks and one unit per task without subtasks; completed counts the
\* completed ones among them.  The store's progress counts the same way over
\* the problems and activities of the plan.
StatsCountLeafUnits ==
  \A c \in DOMAIN state.plans :
    /\ \A i \in 1..Len(sectionsOf(state, c)) :
         LET sec == sectionsOf(state, c)[i]
         IN  /\ computeStatsWithSubtasks(sec.tasks) = unitStats(leafUnits(sec.tasks))
             /\ sec.stats = unitStats(leafUnits(sec.tasks))
    /\ computeProgressForPlan(c, state.plans[c])
         = unitStats(itemUnits(state.plans[c].tasks, problemKeys(c) \cup {ActivityKeyOf[c]}))

\* C4 witness: a pattern parent whose own flag is set while a leaf below it is
\* not, with a completed inner node above an incomplete leaf, next to a
\* completed task that has no subtasks.
StatsWitness ==
  \E c \in CategoryIds : \E t, a \in shownTasks(state, c) :
    /\ t.isPatternParent /\ t.completed
    /\ \E n \in allNodes(t.subtasks) :
         /\ n.completed
         /\ \E m \in allNodes(n.children) : Len(m.children) = 0 /\ ~m.completed
         /\ \E m \in allNodes(n.children) : Len(m.children) > 0
    /\ Len(a.subtasks) = 0 /\ a.completed

(***************************************************************************)
(* Properties of task removal (checked under SpecTasks).                   *)
(***************************************************************************)
scheduleOf(st, c) == st.plans[c].raw.schedule

\* The keys of the tasks the sections of a category show: the section tasks
\* and the problems listed under the pattern parents.
shownKeys(st, c) ==
  {t.key : t \in shownTasks(st, c)}
    \cup {k \in itemKeys(c, scheduleOf(st, c)) :
            \E t \in shownTasks(st, c) : \E i \in 1..Len(t.subtasks) :
              t.isPatternParent /\ t.subtasks[i].id = encodeProblemRootId(k)}

\* C11 as stated: after removeTask on a key shown in a section (an activity,
\* a problem or a pattern parent) the tasks map has no entry for the key, no
\* item of the schedule derives the key and the sections no longer show it.
RemoveTaskRemovesShownTask ==
  \A c \in DOMAIN state.plans : \A key \in shownKeys(state, c) :
    LET post == removeTask(state, c, key)
    IN  /\ key \notin DOMAIN tasksOf(post, c)
        /\ key \notin itemKeys(c, scheduleOf(post, c)) \cup parentKeys(c, scheduleOf(post, c))
        /\ key \notin shownKeys(post, c)

emptyDay(d) == Len(d.activities) = 0 /\ Len(d.patterns) = 0

weeksOf(schedule) == {schedule[w] : w \in 1..Len(schedule)}

daysOf(wk) == {wk.days[d] : d \in 1..Len(wk.days)}

dayCount(schedule) == SetSum(LAMBDA w : Len(schedule[w].days), 1..Len(schedule))

\* C12 as stated: after removeTask the schedule has no week without days and
\* no day without activities and patterns, whatever it held before.
NoEmptyWeekOrDayAfterRemoveTask ==
  \A c \in DOMAIN state.plans : \A key \in RemovalPlanKeys[c] :
    \A wk \in weeksOf(scheduleOf(removeTask(state, c, key), c)) :
      /\ Len(wk.days) > 0
      /\ \A d \in daysOf(wk) : ~emptyDay(d)

\* C12 amended: after removeTask the schedule has no week without days, and
\* the weeks that carry the week number of the key have no day without
\* activities and patterns.
NoEmptyWeekAndNoEmptyDayInKeyWeek ==
  \A c \in DOMAIN state.plans : \A key \in RemovalPlanKeys[c] :
    \A wk \in weeksOf(scheduleOf(removeTask(state, c, key), c)) :
      /\ Len(wk.days) > 0
      /\ startsWith(key, c \o "__w" \o ToString(wk.week) \o "__d") =>
           \A d \in daysOf(wk) : ~emptyDay(d)

\* C12 witness: one removal empties a day and with it its week, another
\* empties a day of a week that keeps other days.
RemoveTaskEmptiesWitness ==
  \E c \in DOMAIN state.plans : \E key, other \in itemKeys(c, scheduleOf(state, c)) :
    LET post == scheduleOf(removeTask(state, c, key), c)
        postOther == scheduleOf(removeTask(state, c, other), c)
    IN  /\ Len(post) < Len(scheduleOf(state, c))
        /\ Len(postOther) = Len(scheduleOf(state, c))
        /\ dayCount(postOther) < dayCount(scheduleOf(state, c))

(***************************************************************************)
(* Properties of the key codec (checked under SpecKeys).                   *)
(***************************************************************************)
sameUpToSlug(a, b) ==
  /\ a.week = b.week
  /\ a.day = b.day
  /\ slug(a.bucket) = slug(b.bucket)
  /\ slug(a.title) = slug(b.title)

\* C13: for a fixed categoryId, two tuples (week, day, bucket, title) give the
\* same key exactly when they have the same week, the same raw day and the
\* same slugs of bucket and title; the same tuple always gives the same key.
KeyInjectiveUpToSlug ==
  call.done =>
    \A b \in KeyTuples :
      (makeTaskKey(call.categoryId, b.week, b.day, b.bucket, b.title) = call.key)
        <=> sameUpToSlug(call.args, b)

\* C13 witness: the key of a tuple that shares it with a different tuple,
\* while a tuple with the week and the day exchanged has another key.
KeyCollisionWitness ==
  /\ call.done
  /\ \E b \in KeyTuples : b # call.args /\ sameUpToSlug(call.args, b)
  /\ \E b \in KeyTuples :
       /\ ToString(b.week) = call.args.day
       /\ ToString(call.args.week) = b.day
       /\ b.week # call.args.week

(***************************************************************************)
(* Properties of slug (checked under SpecSlug).                            *)
(***************************************************************************)
charAt(s, i) == SubSeq(s, i, i)

\* Only [a-z0-9-], and no '-' at either end or next to another '-'.
wellFormedSlug(s) ==
  /\ \A i \in 1..Len(s) : charAt(s, i) \in SlugChars \cup {"-"}
  /\ s # "" => (charAt(s, 1) # "-" /\ charAt(s, Len(s)) # "-")
  /\ \A i \in 1..(Len(s) - 1) : ~(charAt(s, i) = "-" /\ charAt(s, i + 1) = "-")

\* C14: slug has a result for every string, the result holds only [a-z0-9-]
\* with no leading, trailing or doubled '-', and slug of the result is the
\* result.
SlugIdempotent ==
  /\ call.applied >= 1 => wellFormedSlug(call.once)
  /\ call.applied = 2 => call.twice = call.once

\* C14 witness: slug has been applied twice to a string it changes, which
\* holds two characters outside [a-z0-9] next to each other between two
\* characters it keeps or lowers.
SlugWitness ==
  /\ call.applied = 2
  /\ call.once # call.arg
  /\ Len(call.once) = 3
  /\ \E i \in 2..(Len(call.arg) - 2) :
       charAt(call.arg, i) \notin SlugChars /\ charAt(call.arg, i + 1) \notin SlugChars

(***************************************************************************)
(* Properties of the server's seeding (checked under SpecSeed).            *)
(***************************************************************************)
\* C15 as stated: every key the seeding creates for a problem or an activity
\* is the key the section builder and the progress aggregator derive for an
\* item of the plan.
SeededKeysAreClientKeys ==
  \A c \in DOMAIN state.plans :
    (DOMAIN tasksOf(getTasksState(state), c)) \ (DOMAIN tasksOf(state, c))
      \subseteq itemKeys(c, scheduleOf(state, c))

(***************************************************************************)
(* Properties of buildSections and its dates (checked under SpecDates).    *)
(***************************************************************************)
\* The number of day entries in the weeks before week w of a schedule.
daysBefore(schedule, w) == SetSum(LAMBDA v : Len(schedule[v].days), 1..(w - 1))

\* The section built for day d of week w, and the day entry it is built for.
sectionAt(w, d) == call.sections[daysBefore(call.plan.raw.schedule, w) + d]

dayEntries ==
  UNION {{<<w, d>> : d \in 1..Len(call.plan.raw.schedule[w].days)}
         : w \in 1..Len(call.plan.raw.schedule)}

dayEntry(e) == call.plan.raw.schedule[e[1]].days[e[2]]

\* C16: one section per day entry, in schedule order; without a start date
\* the dates are null and the label is "No start date"; with no metadata all
\* tasks are incomplete; one day with one activity gives one section with one
\* task and stats 0 of 1.
OneSectionPerDayInOrder ==
  call.done =>
    LET schedule == call.plan.raw.schedule
    IN  /\ Len(call.sections) = dayCount(schedule)
        /\ \A e \in dayEntries :
             /\ sectionAt(e[1], e[2]).week = schedule[e[1]].week
             /\ sectionAt(e[1], e[2]).dayRaw = dayEntry(e).day
             /\ Len(sectionAt(e[1], e[2]).tasks)
                  = Len(dayEntry(e).patterns) + Len(dayEntry(e).activities)
             /\ \A i \in 1..Len(sectionAt(e[1], e[2]).tasks) :
                  /\ ~sectionAt(e[1], e[2]).tasks[i].completed
                  /\ \A n \in allNodes(sectionAt(e[1], e[2]).tasks[i].subtasks) : ~n.completed
             /\ call.plan.startDate = "" =>
                  /\ sectionAt(e[1], e[2]).dateStart = <<>>
                  /\ sectionAt(e[1], e[2]).dateEnd = <<>>
                  /\ sectionAt(e[1], e[2]).dateLabel = "No start date"
        /\ (\E d1 \in DayStrings : call.plan.raw = OneDayPlan(d1)) =>
             /\ Len(call.sections) = 1
             /\ Len(call.sections[1].tasks) = 1
             /\ call.sections[1].stats = [completed |-> 0, total |-> 1]
             /\ call.plan.raw = OneDayPlan("1") => call.sections[1].dayLabel = "Day 1"

\* C16 witness: the sections of a plan of two weeks and three days with two
\* different day strings, built without a start date.
SectionsInOrderWitness ==
  /\ call.done
  /\ call.plan.startDate = ""
  /\ Len(call.plan.raw.schedule) = 2
  /\ Len(call.sections) = 3
  /\ call.sections[1].dayRaw # call.sections[2].dayRaw

\* The positions of the '-' of a string, with a position before the string
\* and one after it; the tokens are the texts between neighbours.
cuts(s) == {0, Len(s) + 1} \cup {i \in 1..Len(s) : charAt(s, i) = "-"}

tokenCount(s) == Cardinality(cuts(s)) - 1

cutAt(s, k) == CHOOSE p \in cuts(s) : Cardinality({q \in cuts(s) : q < p}) = k

\* The k-th token of a string, blanks at its ends removed.
tokenAt(s, k) ==
  trim(IF cutAt(s, k) > cutAt(s, k - 1) + 1
       THEN SubSeq(s, cutAt(s, k - 1) + 1, cutAt(s, k) - 1)
       ELSE "")

\* A token that is an integer: digits and nothing else.
isInteger(t) == t # "" /\ \A i \in 1..Len(t) : charAt(t, i) \in DigitChars

\* The number the digits at the head of a token spell.
leadingNumber(t) ==
  LET body == t
      n == CHOOSE k \in 1..Len(body) :
             /\ \A i \in 1..k : charAt(body, i) \in DigitChars
             /\ k = Len(body) \/ charAt(body, k + 1) \notin DigitChars
  IN  digitsValue(SubSeq(body, 1, n), 0)

\* The range the rule gives from the tokens a test keeps, numbered in order.
rangeOfKept(s, Keep(_)) ==
  LET kept == {k \in 1..tokenCount(s) : Keep(tokenAt(s, k))}
      nth(j) == CHOOSE k \in kept : Cardinality({x \in kept : x < k}) = j - 1
  IN  IF kept = {} THEN [startDay |-> 1, endDay |-> 1]
      ELSE IF Cardinality(kept) = 1
           THEN [startDay |-> leadingNumber(tokenAt(s, nth(1))),
                 endDay |-> leadingNumber(tokenAt(s, nth(1)))]
      ELSE [startDay |-> leadingNumber(tokenAt(s, nth(1))),
            endDay |-> leadingNumber(tokenAt(s, nth(2)))]

\* C17 as stated: only the tokens that are integers are kept; none gives
\* 1 and 1, one gives that integer twice, two or more give the first and the
\* second; the sections of every day string are built.
DayRangeFromIntegerTokens ==
  call.done =>
    \A e \in dayEntries :
      /\ parseDayRange(dayEntry(e).day) = rangeOfKept(dayEntry(e).day, isInteger)
      /\ sectionAt(e[1], e[2]).dayRaw = dayEntry(e).day

\* The calendar date a Date shows in the browser (getFullYear, getMonth,
\* getDate and the formatter read the local fields).
shownDate(instant) == localFields(instant, zone).date

\* The calendar date an ISO date string names.
calendarDate(iso) == newDate(iso).date

\* C18 as stated: with a start date, a section starts startDay - 1 days and
\* ends endDay - 1 days after the start date; its label is "Day N" for one
\* day and "Days A-B" for a range; day "3-4" from 2024-01-01 gives
\* 2024-01-03, 2024-01-04 and "Days 3-4".
SectionDatesFollowStartDate ==
  (call.done /\ call.plan.startDate # "") =>
    \A e \in dayEntries :
      LET sec == sectionAt(e[1], e[2])
          range == parseDayRange(dayEntry(e).day)
          first == calendarDate(call.plan.startDate)
      IN  /\ shownDate(sec.dateStart[1]) = plusDays(first, range.startDay - 1)
          /\ shownDate(sec.dateEnd[1]) = plusDays(first, range.endDay - 1)
          /\ sec.dayLabel =
               IF range.startDay = range.endDay THEN "Day " \o ToString(range.startDay)
               ELSE "Days " \o ToString(range.startDay) \o "-" \o ToString(range.endDay)
          /\ (dayEntry(e).day = "3-4" /\ call.plan.startDate = "2024-01-01") =>
               /\ shownDate(sec.dateStart[1]) = [y |-> 2024, m |-> 1, d |-> 3]
               /\ shownDate(sec.dateEnd[1]) = [y |-> 2024, m |-> 1, d |-> 4]
               /\ sec.dayLabel = "Days 3-4"

(***************************************************************************)
(* C19: decoding the encoded id of a node shown under a pattern parent     *)
(* gives back the problem key it was encoded from and, for a nested node,  *)
(* the subtask id it was encoded from, for every problem key that          *)
(* makeTaskKey produces.                                                   *)
(***************************************************************************)
DecodeReturnsEncodedNode ==
  (call.op = "problemNode" /\ call.stage = "parsed")
    => call.parsed = << [problemKey |-> call.problemKey, subId |-> call.subId] >>

\* A task of a day section is shown: it passes the tag filter and the search
\* filter of the render.
passesFilters(sec, t) ==
  /\ tagFilter(call.plan, sec, call.selectedTag, t)
  /\ \/ toLowerCase(trim(call.searchQuery)) = ""
     \/ searchFilter(toLowerCase(trim(call.searchQuery)), t)

\* The tasks of the day sections that pass the filters, in the order of the
\* day sections.
passingTasks ==
  Flatten(SeqMap(LAMBDA sec : SelectSeq(sec.tasks, LAMBDA t : passesFilters(sec, t)),
                 call.visible))

(***************************************************************************)
(* C20: in every view mode, under any tag filter and search query, the     *)
(* stats of each output section are the stats of the section's own task    *)
(* list after filtering and merging; every task of an output section       *)
(* passes the filters, and the output sections together count exactly the  *)
(* tasks that pass them, so a hidden task counts towards no section.       *)
(***************************************************************************)
SectionStatsOfShownTasks ==
  (call.op = "prepared" /\ call.done) =>
    /\ \A i \in 1..Len(call.sections) :
         LET sec == call.sections[i]
         IN  /\ sec.stats = unitStats(leafUnits(sec.tasks))
             /\ \A j \in 1..Len(sec.tasks) :
                  \E d \in 1..Len(call.visible) :
                    \E k \in 1..Len(call.visible[d].tasks) :
                      /\ call.visible[d].tasks[k] = sec.tasks[j]
                      /\ passesFilters(call.visible[d], sec.tasks[j])
    /\ SumStats(SeqMap(LAMBDA sec : sec.stats, call.sections))
         = unitStats(leafUnits(passingTasks))

\* C20 witness: a grouped view under a search query in which a section merges
\* the tasks of two days and counts a completed unit, while a task of one of
\* its days that holds a completed unit is hidden.
SectionStatsWitness ==
  /\ call.op = "prepared"
  /\ call.done
  /\ call.mode \in {"week", "month"}
  /\ call.searchQuery # ""
  /\ \E i \in 1..Len(call.sections) :
       LET sec == call.sections[i]
       IN  /\ Len(sec.tasks) >= 2
           /\ sec.stats.completed > 0
           /\ \E d \in 1..Len(call.visible) :
                /\ call.visible[d].week = sec.week
                /\ \E k \in 1..Len(call.visible[d].tasks) :
                     /\ ~passesFilters(call.visible[d], call.visible[d].tasks[k])
                     /\ computeStatsWithSubtasks(<<call.visible[d].tasks[k]>>).completed > 0

\* The tags of the TaskMeta of the plan of the render, and of its sections.
planMetaTags == UNION {metaTags(call.plan.tasks, key) : key \in DOMAIN call.plan.tasks}

visibleTags == UNION {call.visible[i].tags : i \in 1..Len(call.visible)}

(***************************************************************************)
(* C21: when the selected tag is a tag of no TaskMeta and of no section,   *)
(* the prepared output has no section, in every view mode.                 *)
(***************************************************************************)
UnknownTagShowsNothing ==
  (/\ call.op = "prepared"
   /\ call.done
   /\ call.selectedTag # ""
   /\ call.selectedTag \notin planMetaTags \cup visibleTags)
    => call.sections = <<>>

\* C21 witness: a grouped view of a plan that has tagged sections and tasks,
\* under a selected tag that is nowhere in the plan and no search query.
UnknownTagWitness ==
  /\ call.op = "prepared"
  /\ call.done
  /\ call.mode = "quarter"
  /\ call.selectedTag = StaleTag
  /\ call.searchQuery = ""
  /\ call.selectedTag \notin planMetaTags \cup visibleTags
  /\ visibleTags # {}
  /\ planMetaTags # {}
  /\ \E i \in 1..Len(call.visible) : Len(call.visible[i].tasks) > 0
  /\ call.sections = <<>>

\* A tag is selected or the search query is not blank.
filterActive == call.selectedTag # "" \/ trim(call.searchQuery) # ""

\* The id of the output section a day section belongs to in a view mode.
bucketId(mode, sec) ==
  CASE mode = "week" -> "week-" \o ToString(sec.week)
    [] mode = "month" -> "month-" \o monthKey(sec, zone)
    [] mode = "quarter" -> "quarter-" \o quarterKey(sec, zone)
    [] mode = "half" -> "half-" \o halfKey(sec, zone)
    [] mode = "year" -> "year-" \o yearKey(sec, zone)
    [] OTHER -> sec.id

\* The day sections that belong to an output section, in their order.
membersOf(out) ==
  SelectSeq(call.visible, LAMBDA sec : bucketId(call.mode, sec) = out.id)

(***************************************************************************)
(* C22: with a tag selected or a search query that is not blank, no output *)
(* section has an empty task list, in any view mode; with neither, every   *)
(* section and every bucket is kept, the ones with no task included.       *)
(***************************************************************************)
EmptySectionsDroppedIffFilterActive ==
  (call.op = "prepared" /\ call.done) =>
    /\ filterActive => \A i \in 1..Len(call.sections) : Len(call.sections[i].tasks) > 0
    /\ (~filterActive /\ call.mode = "day") =>
         SeqMap(LAMBDA sec : sec.tasks, call.sections)
           = SeqMap(LAMBDA sec : sec.tasks, call.visible)
    /\ (~filterActive /\ call.mode # "day") =>
         \A d \in 1..Len(call.visible) :
           \E i \in 1..Len(call.sections) :
             /\ call.sections[i].id = bucketId(call.mode, call.visible[d])
             /\ call.sections[i].tasks
                  = Flatten(SeqMap(LAMBDA sec : sec.tasks, membersOf(call.sections[i])))

\* C22 witness: under a search query a bucket whose days hold no task is
\* dropped while another bucket is shown.
EmptySectionDroppedWitness ==
  /\ call.op = "prepared"
  /\ call.done
  /\ call.mode = "week"
  /\ call.selectedTag = ""
  /\ trim(call.searchQuery) # ""
  /\ Len(call.sections) = 1
  /\ \E d \in 1..Len(call.visible) :
       /\ Len(call.visible[d].tasks) = 0
       /\ \A i \in 1..Len(call.sections) :
            call.sections[i].id # bucketId(call.mode, call.visible[d])

\* The tasks of a day section that pass the filters of the render.
shownOf(sec) == SelectSeq(sec.tasks, LAMBDA t : passesFilters(sec, t))

\* The output of the same render in day mode.
dayModeSections ==
  prepared(call.visible, call.plan, call.selectedTag, call.searchQuery, "day",
           periodLabelOf("day"), zone)

(***************************************************************************)
(* C23: in week, month, quarter, half and year modes every day section     *)
(* that is not hidden belongs to exactly one output section; the task list *)
(* of an output section is the concatenation, in order and with repeated   *)
(* tasks kept, of the shown tasks of its day sections; and the stats of    *)
(* the output sections add up to the same numbers as in day mode.          *)
(***************************************************************************)
GroupingKeepsEveryTask ==
  (call.op = "prepared" /\ call.done /\ call.mode # "day") =>
    /\ \A d \in 1..Len(call.visible) :
         (shownOf(call.visible[d]) # <<>> \/ ~filterActive) =>
           Cardinality({i \in 1..Len(call.sections) :
                          call.sections[i].id = bucketId(call.mode, call.visible[d])}) = 1
    /\ \A i \in 1..Len(call.sections) :
         /\ membersOf(call.sections[i]) # <<>>
         /\ call.sections[i].tasks = Flatten(SeqMap(shownOf, membersOf(call.sections[i])))
    /\ SumStats(SeqMap(LAMBDA sec : sec.stats, call.sections))
         = SumStats(SeqMap(LAMBDA sec : sec.stats, dayModeSections))

\* C23 witness: a week bucket that holds the same task twice, once from each
\* of two day sections, and counts it twice, next to another bucket.
GroupingWitness ==
  /\ call.op = "prepared"
  /\ call.done
  /\ call.mode = "week"
  /\ Len(call.sections) = 2
  /\ Len(membersOf(call.sections[1])) = 2
  /\ Len(call.sections[1].tasks) = 2
  /\ call.sections[1].tasks[1] = call.sections[1].tasks[2]
  /\ call.sections[1].stats.total = 2

(***************************************************************************)
(* C24: the output sections of a grouped view are in chronological order:  *)
(* in week mode by ascending week number, and in month, quarter, half and  *)
(* year modes a bucket with an earlier dateStart comes before a bucket     *)
(* with a later one.                                                       *)
(***************************************************************************)
BucketsInChronologicalOrder ==
  (call.op = "prepared" /\ call.done /\ call.mode # "day") =>
    \A i, j \in 1..Len(call.sections) :
      i < j =>
        IF call.mode = "week" THEN call.sections[i].week < call.sections[j].week
        ELSE (call.sections[i].dateStart # <<>> /\ call.sections[j].dateStart # <<>>)
               => ~earlier(call.sections[j].dateStart[1], call.sections[i].dateStart[1])

(***************************************************************************)
(* C25: a GET /tasks/state that follows a PUT /tasks/state of the state S  *)
(* of a user returns started, progress and plans equal to S, also when a   *)
(* tasks map of S has no entry for some item of its plan.                  *)
(***************************************************************************)
GetAfterPutReturnsState ==
  DOMAIN state.plans # {} => getTasksState(putTasksState(state)) = state

\* A raw plan whose schedule is a non-empty array.
hasSchedule(raw) == "schedule" \in DOMAIN raw /\ Len(raw.schedule) > 0

(***************************************************************************)
(* C26: every plan handed to the store's importPlan, from the import form  *)
(* of the home page or from the import modal of the tasks page, has a      *)
(* schedule that is a non-empty array, so every plan in the store has one. *)
(***************************************************************************)
ImportedPlansHaveSchedule ==
  /\ call.op = "import" => (call.dispatched # <<>> => hasSchedule(call.dispatched[1]))
  /\ \A c \in DOMAIN state.plans : hasSchedule(state.plans[c].raw)

(***************************************************************************)
(* C27: the propagation rule holds after addSubtask too: when it holds in  *)
(* a tree and for its task, then after a new incomplete node is added      *)
(* under a node of the tree or as a root, every node that has children is  *)
(* completed exactly when all its children are, and the flag of the task   *)
(* agrees with its root subtasks.                                          *)
(***************************************************************************)
PropagationAfterAddSubtask ==
  \A c \in DOMAIN state.plans : \A parentId \in IdPool \cup {""} :
    LET post == addSubtask(state, c, ActivityKeyOf[c], NewTitle, "", parentId,
                           subtaskIdAt(clock + 1))
    IN  (RuleHolds(activityTree(state, c)) /\ TaskRuleHolds(activityMeta(state, c))) =>
          /\ RuleHolds(activityTree(post, c))
          /\ TaskRuleHolds(activityMeta(post, c))

(***************************************************************************)
(* Two nodes with one id (checked under SpecTwins).                        *)
(***************************************************************************)
\* The nodes of a tree in depth-first listed order, each with the number of
\* nodes of its subtree.
RECURSIVE listed(_)
listed(list) ==
  IF list = <<>> THEN <<>>
  ELSE LET below == listed(Head(list).children)
       IN  <<[id |-> Head(list).id, title |-> Head(list).title,
              completed |-> Head(list).completed, notes |-> Head(list).notes,
              size |-> Len(below) + 1]>>
           \o below \o listed(Tail(list))

\* The positions of the nodes with the id, in listed order.
positionsOf(nodes, id) == {i \in 1..Len(nodes) : nodes[i].id = id}

firstPosition(nodes, id) ==
  CHOOSE i \in positionsOf(nodes, id) : \A j \in positionsOf(nodes, id) : i <= j

\* The later nodes with the id that lie outside the subtree of the first.
twinsOf(nodes, id) ==
  {i \in positionsOf(nodes, id) :
     i >= firstPosition(nodes, id) + nodes[firstPosition(nodes, id)].size}

\* C28: when two nodes of the tree share an id, toggleSubtask,
\* removeSubtask, setSubtaskNotes and renameSubtask act on the first node
\* with the id in depth-first listed order only: the other node with the id
\* stays in the tree and keeps its notes, its title and (being a leaf, which
\* propagation never rewrites) its completed flag.
OnlyFirstTwinAffected ==
  \A c \in DOMAIN state.plans : \A id \in TwinIds :
    LET key == ActivityKeyOf[c]
        pre == listed(activityTree(state, c))
        noted == listed(activityTree(setSubtaskNotes(state, c, key, id, NewNotes), c))
        renamed == listed(activityTree(renameSubtask(state, c, key, id, RenamedTitle), c))
        toggled == listed(activityTree(toggleSubtask(state, c, key, id), c))
        removed == listed(activityTree(removeSubtask(state, c, key, id), c))
    IN  \A i \in twinsOf(pre, id) :
          /\ noted[i].notes = pre[i].notes
          /\ renamed[i].title = pre[i].title
          /\ pre[i].size = 1 => toggled[i].completed = pre[i].completed
          /\ Len(removed) = Len(pre) - pre[firstPosition(pre, id)].size
          /\ positionsOf(removed, id) # {}

(***************************************************************************)
(* Notes and titles of subtasks (checked under SpecEdits, where every id   *)
(* names one node).                                                        *)
(***************************************************************************)
\* The placements of a tree after one field of the node with the id is
\* replaced: position 4 is the title, position 6 the notes.
withField(pls, id, field, value) ==
  {IF pl[3] = id THEN [pl EXCEPT ![field] = value] ELSE pl : pl \in pls}

\* A state with the subtasks of the activity put back to those of `from`.
withTreeOf(st, from, c) ==
  IF ActivityKeyOf[c] \in DOMAIN tasksOf(st, c)
  THEN [st EXCEPT !.plans[c].tasks[ActivityKeyOf[c]].subtasks = activityTree(from, c)]
  ELSE st

\* C29: setSubtaskNotes and renameSubtask replace the notes, respectively the
\* title, of the node with the id, at any depth, and nothing else: every
\* completed flag, every parent and position, the flag of the task, the
\* other tasks and the stored progress are as before.
EditsReplaceOneField ==
  \A c \in DOMAIN state.plans : \A id \in IdPool :
    LET key == ActivityKeyOf[c]
        pre == placements(activityTree(state, c), "")
        noted == setSubtaskNotes(state, c, key, id, NewNotes)
        renamed == renameSubtask(state, c, key, id, RenamedTitle)
    IN  /\ placements(activityTree(noted, c), "") = withField(pre, id, 6, NewNotes)
        /\ placements(activityTree(renamed, c), "") = withField(pre, id, 4, RenamedTitle)
        /\ withTreeOf(noted, state, c) = state
        /\ withTreeOf(renamed, state, c) = state

\* A nested node carries edited notes and an edited title under a completed
\* parent, in a task that is completed.
EditsWitness ==
  \E c \in DOMAIN state.plans :
    /\ activityMeta(state, c).completed
    /\ \E pl \in placements(activityTree(state, c), "") :
         pl[1] # "" /\ pl[4] = RenamedTitle /\ pl[5] /\ pl[6] = NewNotes

(***************************************************************************)
(* SpecShown: the tasks page of a category.  The user ticks, annotates and *)
(* deletes the tasks the sections show at the time.                        *)
(***************************************************************************)
\* The keys buildSections gives to the tasks of a plan: one per pattern (the
\* parent tile), one per problem (a child of the parent tile) and one per
\* activity of every day of the schedule.
sectionKeys(st, c) ==
  itemKeys(c, scheduleOf(st, c)) \cup parentKeys(c, scheduleOf(st, c))

ToggleTaskShown ==
  \E c \in DOMAIN state.plans : \E key \in sectionKeys(state, c) :
    /\ state' = toggleTask(state, c, key)
    /\ UNCHANGED <<clock, call, zone>>

SetTaskNotesShown ==
  \E c \in DOMAIN state.plans : \E key \in sectionKeys(state, c) :
    /\ state' = setTaskNotes(state, c, key, NewNotes)
    /\ UNCHANGED <<clock, call, zone>>

RemoveTaskShown ==
  \E c \in DOMAIN state.plans : \E key \in sectionKeys(state, c) :
    /\ state' = removeTask(state, c, key)
    /\ UNCHANGED <<clock, call, zone>>

NextShown ==
  \/ ImportPlan(PatternPlan)
  \/ ToggleTaskShown
  \/ SetTaskNotesShown
  \/ RemoveTaskShown

SpecShown == Init /\ [][NextShown]_vars

\* The keys of the plan's tasks map that no item of its schedule derives.
orphanedKeys(st, c) == DOMAIN tasksOf(st, c) \ sectionKeys(st, c)

\* C30: whatever the user does to the tasks the sections show, every key of
\* a plan's tasks map is the key of an activity, of a problem or of a
\* pattern that is still in the schedule of the plan.
NoOrphanedTaskKey ==
  \A c \in DOMAIN state.plans : orphanedKeys(state, c) = {}

(***************************************************************************)
(* TasksProvider, the component around the reducer.  It keeps the reducer  *)
(* state, the flag remoteLoaded and three effects: load (runs when the id  *)
(* of the user changes), persist (user id, remoteLoaded or state changes)  *)
(* and progress sync (state.plans changes).  An event (a user action, a    *)
(* login or logout, the answer to a GET) updates the hooks; React renders, *)
(* runs the effects whose dependencies changed, in the order they are      *)
(* declared and with the values of that render, then applies the updates   *)
(* the effects queued and renders again, until nothing is queued.  No      *)
(* other event is handled before that, so one step of the model is one     *)
(* event with the renders that follow it.  `call` holds the component      *)
(* and its surroundings:                                                   *)
(*   user, remoteLoaded   the hooks (user is the id, "" when logged out)   *)
(*   gets                 the GET requests in flight, each with the        *)
(*                        `aborted` variable of the effect that sent it    *)
(*   logins               the login requests in flight                     *)
(*   server, local        the stored state of every user; localStorage     *)
(*   puts                 the PUT requests sent during the last step       *)
(*   queue                the updates queued during a render               *)
(*   logged               the number of logins answered so far             *)
(* and, for the statement of the properties only: arrived (the request the *)
(* last step answered, if any), owner (whose stored state the state in     *)
(* memory was loaded from), mutated (a user action changed the state since *)
(* the login), and in every request `stale` (the user id has changed since *)
(* it was sent).                                                           *)
(***************************************************************************)
ProviderUsers == {"a", "b"}
\* Largest number of logins answered in one run.
MaxLogins == 2
NoUser == ""

\* `case 'set': return action.payload`
set(st, payload) == payload

\* `case 'setProgress'`
setProgress(st, categoryId, progress) ==
  [st EXCEPT !.progress = Put(st.progress, categoryId, progress)]

\* `case 'start'`
start(st, categoryId) ==
  IF categoryId \in DOMAIN st.started /\ st.started[categoryId] THEN st
  ELSE [st EXCEPT !.started = Put(st.started, categoryId, TRUE),
                  !.progress = IF categoryId \in DOMAIN st.progress THEN st.progress
                               ELSE Put(st.progress, categoryId, [completed |-> 0, total |-> 0])]

\* loadInitial: the state kept in localStorage, or the empty state.
loadInitial(stored) == IF stored = <<>> THEN EmptyState ELSE stored[1]

\* `state.progress[id] ?? { completed: 0, total: 0 }`
progressOrZero(st, id) ==
  IF id \in DOMAIN st.progress THEN st.progress[id] ELSE [completed |-> 0, total |-> 0]

NoUpdates == [remoteLoaded |-> <<>>, set |-> <<>>, owner |-> <<>>, progress |-> EmptyMap]

\* A cleanup that leaves the variable of the earlier effect alone.
cleanupNothing(gets) == gets

\* `return () => { aborted = true }`: the cleanup of the load effect, run
\* before the effect runs again.
cleanup(gets) == {[g EXCEPT !.aborted = TRUE] : g \in gets}

\* The load effect.
loadEffect(w) ==
  LET cleaned == [w EXCEPT !.gets = cleanup(w.gets), !.queue.remoteLoaded = <<FALSE>>]
  IN  IF w.user = NoUser
      THEN [cleaned EXCEPT !.queue.set = <<loadInitial(w.local)>>, !.queue.owner = <<NoUser>>]
      ELSE [cleaned EXCEPT !.gets = @ \cup {[user |-> w.user, aborted |-> FALSE,
                                             stale |-> FALSE]}]

\* The persist effect.  A PUT is recorded with what the properties need to
\* know about the moment it was sent.
persistEffect(w) ==
  IF w.user # NoUser
  THEN IF ~w.remoteLoaded THEN w
       ELSE [w EXCEPT !.server[w.user] = putTasksState(w.state),
                      !.puts = @ \cup {[userId |-> w.user, state |-> w.state,
                                        early |-> \E g \in w.gets : ~g.stale,
                                        owner |-> w.owner]}]
  ELSE [w EXCEPT !.local = <<w.state>>]

\* The progress-sync effect: one setProgress for every plan whose stored
\* progress differs from the computed one.
syncEffect(w) ==
  LET differing == {id \in DOMAIN w.state.plans :
                      progressOrZero(w.state, id) # computeProgressForPlan(id, w.state.plans[id])}
  IN  [w EXCEPT !.queue.progress =
         [id \in differing |-> computeProgressForPlan(id, w.state.plans[id])]]

\* The effects of one render; prev holds the dependencies of the render
\* before.
runEffects(w, prev, mount) ==
  LET w1 == IF mount \/ prev.user # w.user THEN loadEffect(w) ELSE w
      w2 == IF mount \/ prev.user # w.user \/ prev.remoteLoaded # w.remoteLoaded
                     \/ prev.state # w.state
            THEN persistEffect(w1) ELSE w1
  IN  IF mount \/ prev.state.plans # w.state.plans THEN syncEffect(w2) ELSE w2

RECURSIVE dispatchProgress(_, _)
dispatchProgress(st, updates) ==
  IF DOMAIN updates = {} THEN st
  ELSE LET id == CHOOSE x \in DOMAIN updates : TRUE
       IN  dispatchProgress(setProgress(st, id, updates[id]),
                            [x \in DOMAIN updates \ {id} |-> updates[x]])

\* The queued updates applied, in the order they were queued.
applyQueue(w) ==
  LET q == w.queue
      afterSet == IF q.set # <<>> THEN set(w.state, q.set[1]) ELSE w.state
  IN  [w EXCEPT !.state = dispatchProgress(afterSet, q.progress),
                !.remoteLoaded = IF q.remoteLoaded # <<>> THEN q.remoteLoaded[1] ELSE @,
                !.owner = IF q.owner # <<>> THEN q.owner[1] ELSE @,
                !.queue = NoUpdates]

deps(w) == [user |-> w.user, remoteLoaded |-> w.remoteLoaded, state |-> w.state]

\* Render, run the effects, apply what they queued, until nothing changes.
RECURSIVE settle(_, _, _)
settle(w, prev, mount) ==
  LET next == applyQueue(runEffects(w, prev, mount))
  IN  IF deps(next) = deps(w) THEN next ELSE settle(next, deps(w), FALSE)

\* The component and the reducer state as one record, at the start of an
\* event.
world ==
  [f \in DOMAIN call \cup {"state"} |->
     IF f = "state" THEN state
     ELSE IF f = "puts" THEN {}
     ELSE IF f = "arrived" THEN <<>>
     ELSE call[f]]

\* The step of an event that has updated the hooks of `w` to give `changed`.
Rendered(w, changed) ==
  LET after == IF deps(changed) = deps(w) THEN changed ELSE settle(changed, deps(w), FALSE)
  IN  /\ state' = after.state
      /\ call' = [f \in DOMAIN call |-> after[f]]
      /\ UNCHANGED zone

\* The stored state of the users at the start: "a" has imported a plan and
\* completed its activity, "b" has stored nothing yet.
ServerAtStart ==
  [u \in ProviderUsers |->
     putTasksState(IF u = "a"
                   THEN toggleTask(importPlan(EmptyState, "c1", ActivityPlan, NoStartDate),
                                   "c1", ActivityKeyOf["c1"])
                   ELSE EmptyState)]

\* The page is opened: the user kept in localStorage, if any, is logged in.
InitProvider ==
  /\ \E u \in {NoUser, "a"} :
       call = [op |-> "provider", mounted |-> FALSE, arrived |-> <<>>, logged |-> 0,
               user |-> u, remoteLoaded |-> FALSE, gets |-> {}, logins |-> {},
               server |-> ServerAtStart, local |-> <<>>, puts |-> {},
               queue |-> NoUpdates, owner |-> NoUser, mutated |-> FALSE]
  /\ state = loadInitial(<<>>)
  /\ clock = 0
  /\ zone = UTC

\* The first render: every effect runs.
Mount ==
  /\ ~call.mounted
  /\ LET w == [world EXCEPT !.mounted = TRUE]
         after == settle(w, deps(w), TRUE)
     IN  /\ state' = after.state
         /\ call' = [f \in DOMAIN call |-> after[f]]
  /\ UNCHANGED <<clock, zone>>

\* AuthProvider.login / signup: the pages that call them are shown to a
\* guest only; the request is answered later.
StartLogin ==
  \E u \in ProviderUsers :
    /\ call.mounted /\ call.user = NoUser /\ u \notin call.logins
    /\ call' = [call EXCEPT !.logins = @ \cup {u}, !.puts = {}, !.arrived = <<>>]
    /\ UNCHANGED <<state, clock, zone>>

\* The user id the hooks hold becomes `u`: the requests in flight are from
\* an earlier login.
withUser(w, u) ==
  IF u = w.user THEN w
  ELSE [w EXCEPT !.user = u, !.mutated = FALSE,
                 !.gets = {[g EXCEPT !.stale = TRUE] : g \in w.gets}]

\* `setUser(res)` when the login request is answered.
LoginResolves ==
  \E u \in call.logins :
    /\ call.logged < MaxLogins
    /\ LET w == [world EXCEPT !.logins = @ \ {u}, !.logged = @ + 1]
       IN  Rendered(w, withUser(w, u))
    /\ UNCHANGED clock

\* AuthProvider.logout: `setUser(null)`.
Logout ==
  /\ call.mounted /\ call.user # NoUser
  /\ LET w == world IN Rendered(w, withUser(w, NoUser))
  /\ UNCHANGED clock

\* The GET of the load effect is answered: the rest of the async function
\* runs, with the `aborted` variable of its effect.
GetAnswered ==
  \E g \in call.gets : \E ok \in (IF g.aborted THEN {FALSE} ELSE BOOLEAN) :
    /\ LET w == [world EXCEPT !.gets = @ \ {g}, !.arrived = <<g>>]
           remote == getTasksState(w.server[g.user])
           applied == IF ok THEN [w EXCEPT !.queue.set = <<remote>>,
                                           !.queue.owner = <<g.user>>]
                      ELSE w
           loaded == [applied EXCEPT !.queue.remoteLoaded = <<TRUE>>]
       IN  Rendered(w, IF g.aborted THEN w ELSE applyQueue(loaded))
    /\ UNCHANGED clock

\* A user action dispatched to the reducer.
Dispatched(after) ==
  LET w == world
  IN  Rendered(w, [w EXCEPT !.state = after,
                            !.mutated = @ \/ (w.user # NoUser /\ after # w.state)])

ProviderImportPlan ==
  /\ call.mounted
  /\ \E c \in CategoryIds :
       Dispatched(importPlan(state, c, ActivityPlan, NoStartDate))
  /\ UNCHANGED clock

NextProvider ==
  \/ Mount
  \/ StartLogin
  \/ LoginResolves
  \/ Logout
  \/ GetAnswered
  \/ ProviderImportPlan

SpecProvider == InitProvider /\ [][NextProvider]_vars

(***************************************************************************)
(* SpecSync: the provider of a guest.  The store operations are dispatched *)
(* through the component, so that the persist and progress-sync effects    *)
(* run after each of them.                                                 *)
(***************************************************************************)
\* Largest number of subtasks added in one run of SpecSync.
MaxSyncNodes == 3

\* The progress values handed to the store's setProgress.
ProgressInputs == {[completed |-> 0, total |-> 0], [completed |-> 1, total |-> 2]}

InitSync ==
  /\ call = [op |-> "provider", mounted |-> FALSE, arrived |-> <<>>, logged |-> 0,
             user |-> NoUser, remoteLoaded |-> FALSE, gets |-> {}, logins |-> {},
             server |-> ServerAtStart, local |-> <<>>, puts |-> {},
             queue |-> NoUpdates, owner |-> NoUser, mutated |-> FALSE]
  /\ state = loadInitial(<<>>)
  /\ clock = 0
  /\ zone = UTC

\* The page is opened again: the reducer starts from local storage and the
\* component is mounted anew.
Reload ==
  /\ call.mounted
  /\ state' = loadInitial(call.local)
  /\ call' = [call EXCEPT !.mounted = FALSE, !.remoteLoaded = FALSE, !.puts = {},
                          !.arrived = <<>>]
  /\ UNCHANGED <<clock, zone>>

SyncAddSubtask ==
  /\ call.mounted /\ clock < MaxSyncNodes
  /\ clock' = clock + 1
  /\ \E c \in CategoryIds : \E parentId \in IdPool \cup {""} :
       Dispatched(addSubtask(state, c, ActivityKeyOf[c], NewTitle, "", parentId,
                             subtaskIdAt(clock')))

SyncToggleSubtask ==
  /\ call.mounted
  /\ \E c \in CategoryIds : \E subtaskId \in IdPool :
       Dispatched(toggleSubtask(state, c, ActivityKeyOf[c], subtaskId))
  /\ UNCHANGED clock

SyncSetProgress ==
  /\ call.mounted
  /\ \E c \in CategoryIds : \E p \in ProgressInputs :
       Dispatched(setProgress(state, c, p))
  /\ UNCHANGED clock

NextSync ==
  \/ Mount
  \/ Reload
  \/ ProviderImportPlan
  \/ SyncAddSubtask
  \/ SyncToggleSubtask
  \/ SyncSetProgress

SpecSync == InitSync /\ [][NextSync]_vars

(***************************************************************************)
(* SpecProgress: a plan with a pattern that has a problem, a pattern that  *)
(* has none, and an activity that is given subtasks.                       *)
(***************************************************************************)
EmptyPatternPlan ==
  [title |-> "Plan E",
   schedule |-> << [week |-> 1,
                    days |-> << [day |-> "1",
                                 patterns |-> << [name |-> "Two P", problems |-> <<"2 Sum">>],
                                                 [name |-> "Heap", problems |-> <<>>] >>,
                                 activities |-> <<"Read docs">>] >>] >>]

EmptyPatternKeyOf == [c \in CategoryIds |-> makeTaskKey(c, 1, "1", "pattern", "Heap")]

EmptyPatternPlanKeys ==
  [c \in CategoryIds |-> {FirstProblemKeyOf[c], ActivityKeyOf[c], EmptyPatternKeyOf[c]}]

NextProgress ==
  \/ ImportPlan(EmptyPatternPlan)
  \/ ToggleTask(EmptyPatternPlanKeys)
  \/ AddSubtask(ActivityKeyOf, MaxNodes)
  \/ ToggleSubtask(ActivityKeyOf)
  \/ RemoveSubtask(ActivityKeyOf)

SpecProgress == Init /\ [][NextProgress]_vars

(***************************************************************************)
(* Reducer case addTask, and SpecAddTask: tasks are added to a plan and    *)
(* removed again by the key the page derives for them.                     *)
(***************************************************************************)
\* `existing ?? { title: 'Ad-hoc Plan', ... }`
AdHocPlan ==
  [title |-> "Ad-hoc Plan", startDate |-> NoStartDate,
   raw |-> [title |-> "Ad-hoc Plan", schedule |-> <<>>], tasks |-> EmptyMap]

\* `action.input.patternName?.trim() || 'General'`; "" is no pattern name.
patternNameOf(input) ==
  IF trim(input.patternName) = "" THEN "General" ELSE trim(input.patternName)

\* The matching day with the title appended to its activities, or to the
\* problems of the first pattern of that name, or as a new pattern.
addToDay(d, input) ==
  IF input.kind = "activity"
  THEN [d EXCEPT !.activities = Append(@, input.title)]
  ELSE LET name == patternNameOf(input)
           found == {i \in 1..Len(d.patterns) : d.patterns[i].name = name}
       IN  IF found # {}
           THEN LET idx == CHOOSE i \in found : \A j \in found : i <= j
                IN  [d EXCEPT !.patterns[idx].problems = Append(@, input.title)]
           ELSE [d EXCEPT !.patterns =
                   Append(@, [name |-> name, problems |-> <<input.title>>])]

\* The day that addTask creates.
newDayOf(input) ==
  [day |-> input.day,
   patterns |-> IF input.kind = "activity" THEN <<>>
                ELSE <<[name |-> patternNameOf(input), problems |-> <<input.title>>]>>,
   activities |-> IF input.kind = "activity" THEN <<input.title>> ELSE <<>>]

addToWeek(w, input) ==
  LET days == SeqMap(LAMBDA d : IF d.day # input.day THEN d ELSE addToDay(d, input), w.days)
      foundDay == \E i \in 1..Len(w.days) : w.days[i].day = input.day
  IN  [w EXCEPT !.days = IF foundDay THEN days ELSE Append(days, newDayOf(input))]

addTask(st, categoryId, input) ==
  LET base == IF categoryId \in DOMAIN st.plans THEN st.plans[categoryId] ELSE AdHocPlan
      old == scheduleOrEmpty(base.raw)
      foundWeek == \E i \in 1..Len(old) : old[i].week = input.week
      schedule == SeqMap(LAMBDA w : IF w.week # input.week THEN w ELSE addToWeek(w, input),
                         old)
      newSchedule == IF foundWeek THEN schedule
                     ELSE Append(old, [week |-> input.week, days |-> <<newDayOf(input)>>])
  IN  withPlan(st, categoryId,
               [base EXCEPT !.raw = [f \in DOMAIN base.raw \cup {"schedule"} |->
                                       IF f = "schedule" THEN newSchedule ELSE base.raw[f]]])

\* The key buildSections derives for an added item.
addedKey(categoryId, input) ==
  makeTaskKey(categoryId, input.week, input.day,
              IF input.kind = "activity" THEN "activity" ELSE patternNameOf(input),
              input.title)

\* Largest number of addTask operations in one run.
MaxAdded == 2

\* One week, one day, a pattern with one problem, one activity.
SmallPlan ==
  [title |-> "Plan S",
   schedule |-> << [week |-> 1,
                    days |-> << [day |-> "1",
                                 patterns |-> << [name |-> "P", problems |-> <<"a">>] >>,
                                 activities |-> <<"b">>] >>] >>]

\* An existing week and day, a new day of an existing week, a new week; an
\* activity or a problem of pattern "P"; a title the day has, with another
\* spelling, or a new one.
AddInputs ==
  {[week |-> wd[1], day |-> wd[2], kind |-> kp[1], patternName |-> kp[2], title |-> t] :
     wd \in {<<1, "1">>, <<1, "2">>, <<2, "1">>},
     kp \in {<<"activity", "">>, <<"problem", " P ">>},
     t \in {"A", "n"}}

AddTask ==
  \E c \in CategoryIds : \E input \in AddInputs :
    /\ c \in DOMAIN state.plans
    /\ clock < MaxAdded
    /\ clock' = clock + 1
    /\ state' = addTask(state, c, input)
    /\ UNCHANGED <<call, zone>>

RemoveAdded ==
  \E c \in CategoryIds : \E input \in AddInputs :
    /\ state' = removeTask(state, c, addedKey(c, input))
    /\ UNCHANGED <<clock, call, zone>>

NextAddTask ==
  \/ ImportPlan(SmallPlan)
  \/ AddTask
  \/ RemoveAdded

SpecAddTask == Init /\ [][NextAddTask]_vars

(***************************************************************************)
(* SpecFrame: the task-level and subtask-level cases of the reducer on two *)
(* categories and two keys of each.                                        *)
(***************************************************************************)
FrameCategories == {"c1", "c2"}

\* Largest number of task and subtask operations in one run of SpecFrame.
MaxFrameOps == 2

FrameActivityKeyOf == [c \in FrameCategories |-> makeTaskKey(c, 1, "1", "activity", "b")]
FrameProblemKeyOf == [c \in FrameCategories |-> makeTaskKey(c, 1, "1", "P", "a")]
FrameKeysOf == [c \in FrameCategories |-> {FrameActivityKeyOf[c], FrameProblemKeyOf[c]}]

FrameIds == {subtaskIdAt(1), subtaskIdAt(2)}

\* Both categories have a plan; the activity of c2 is completed, the
\* problem of c1 has a subtask and its activity has notes.
FrameStart ==
  LET both == importPlan(importPlan(EmptyState, "c1", SmallPlan, NoStartDate),
                         "c2", SmallPlan, NoStartDate)
      ticked == toggleTask(both, "c2", FrameActivityKeyOf["c2"])
      grown == addSubtask(ticked, "c1", FrameProblemKeyOf["c1"], NewTitle, "", "",
                          subtaskIdAt(1))
  IN  setTaskNotes(grown, "c1", FrameActivityKeyOf["c1"], NewNotes)

\* The actions of one type that the model dispatches; `id` is the id that an
\* addSubtask generates.
actionsOf(type, id) ==
  {[type |-> type, categoryId |-> c, key |-> k, subtaskId |-> sid, parentId |-> pid,
    title |-> RenamedTitle, notes |-> NewNotes, id |-> id] :
     c \in FrameCategories, k \in UNION {FrameKeysOf[x] : x \in FrameCategories},
     sid \in (IF type \in {"toggleSubtask", "removeSubtask", "setSubtaskNotes",
                            "renameSubtask"} THEN FrameIds ELSE {""}),
     pid \in (IF type = "addSubtask" THEN {"", subtaskIdAt(1)} ELSE {""})}

\* The switch of the reducer over the task-level and subtask-level actions.
reducer(st, action) ==
  CASE action.type = "toggleTask" -> toggleTask(st, action.categoryId, action.key)
    [] action.type = "setTaskNotes" ->
         setTaskNotes(st, action.categoryId, action.key, action.notes)
    [] action.type = "renameTask" ->
         renameTask(st, action.categoryId, action.key, action.title)
    [] action.type = "removeTask" -> removeTask(st, action.categoryId, action.key)
    [] action.type = "addSubtask" ->
         addSubtask(st, action.categoryId, action.key, action.title, action.notes,
                    action.parentId, action.id)
    [] action.type = "toggleSubtask" ->
         toggleSubtask(st, action.categoryId, action.key, action.subtaskId)
    [] action.type = "removeSubtask" ->
         removeSubtask(st, action.categoryId, action.key, action.subtaskId)
    [] action.type = "setSubtaskNotes" ->
         setSubtaskNotes(st, action.categoryId, action.key, action.subtaskId, action.notes)
    [] action.type = "renameSubtask" ->
         renameSubtask(st, action.categoryId, action.key, action.subtaskId, action.title)
    [] OTHER -> st

TaskActionTypes ==
  {"toggleTask", "setTaskNotes", "renameTask", "removeTask", "addSubtask",
   "toggleSubtask", "removeSubtask", "setSubtaskNotes", "renameSubtask"}

InitFrame ==
  /\ state \in {EmptyState,
                 importPlan(EmptyState, "c1", SmallPlan, NoStartDate),
                 FrameStart}
  /\ clock = 1
  /\ zone = UTC
  /\ call = NoCall

FrameImportPlan ==
  \E c \in FrameCategories :
    /\ state' = importPlan(state, c, SmallPlan, NoStartDate)
    /\ UNCHANGED <<clock, call, zone>>

Dispatch(type) ==
  \E action \in actionsOf(type, subtaskIdAt(clock + 1)) :
    /\ clock <= MaxFrameOps
    /\ clock' = clock + 1
    /\ state' = reducer(state, action)
    /\ UNCHANGED <<call, zone>>

NextFrame ==
  \/ FrameImportPlan
  \/ Dispatch("toggleTask")
  \/ Dispatch("setTaskNotes")
  \/ Dispatch("renameTask")
  \/ Dispatch("removeTask")
  \/ Dispatch("addSubtask")
  \/ Dispatch("toggleSubtask")
  \/ Dispatch("removeSubtask")
  \/ Dispatch("setSubtaskNotes")
  \/ Dispatch("renameSubtask")

SpecFrame == InitFrame /\ [][NextFrame]_vars

(***************************************************************************)
(* Properties of the provider.                                             *)
(***************************************************************************)
\* C32: no PUT /tasks/state is issued under a user's id while the GET
\* /tasks/state of that login is still unanswered, and no PUT is issued at
\* all while nobody is logged in.
NoPutBeforeGetCompleted ==
  call.op = "provider" =>
    \A p \in call.puts : p.userId # NoUser /\ ~p.early

\* C33: a GET /tasks/state response that arrives after the user id has
\* changed (logout, or another user) since the request was sent changes
\* neither the in-memory state nor remoteLoaded.
StaleResponseIgnored ==
  [][(call'.op = "provider" /\ call'.arrived # <<>> /\ call'.arrived[1].stale)
       => (state' = state /\ call'.remoteLoaded = call.remoteLoaded)]_vars

\* A response has arrived for a user who is no longer the one logged in, with
\* a stored state that differs from the state in memory.
StaleResponseWitness ==
  /\ call.op = "provider" /\ call.arrived # <<>>
  /\ call.arrived[1].stale /\ call.arrived[1].user # call.user
  /\ getTasksState(call.server[call.arrived[1].user]) # state

\* C34: a plan imported while a user is logged in, before the GET
\* /tasks/state response of that login arrives, is still in the in-memory
\* state after the response.
MutationSurvivesResponse ==
  [][(call'.op = "provider" /\ call'.arrived # <<>> /\ call.mutated)
       => \A c \in DOMAIN state.plans :
            c \in DOMAIN state'.plans /\ state'.plans[c].raw = state.plans[c].raw]_vars

\* C35: the state of every PUT /tasks/state was loaded from the stored state
\* of the user it is sent under (and changed by that user's actions since),
\* never from local storage or from another user's stored state.
PutStateIsOwn ==
  call.op = "provider" => \A p \in call.puts : p.owner = p.userId

\* C31: once the effects have run after the last change, the stored
\* progress of every category that has a plan is the progress computed from
\* the plan.
StoredProgressIsComputed ==
  (call.op = "provider" /\ call.mounted) =>
    \A c \in DOMAIN state.plans :
      c \in DOMAIN state.progress
        /\ state.progress[c] = computeProgressForPlan(c, state.plans[c])

\* C36: the progress that computeProgressForPlan gives for a plan is the
\* sum of the stats of the sections that buildSections makes of it.
sectionStatsTotal(st, c) ==
  SumStats(SeqMap(LAMBDA sec : sec.stats, buildSections(c, st.plans[c], zone)))

ProgressIsSectionStats ==
  \A c \in DOMAIN state.plans :
    computeProgressForPlan(c, state.plans[c]) = sectionStatsTotal(state, c)

\* C37: on an existing plan, addTask followed by removeTask of the key
\* derived for the added item gives back the schedule and the tasks map.
addThenRemove(st, c, input) == removeTask(addTask(st, c, input), c, addedKey(c, input))

AddThenRemoveRestores ==
  \A c \in DOMAIN state.plans : \A input \in AddInputs :
    LET after == addThenRemove(state, c, input).plans[c]
    IN  /\ after.raw.schedule = state.plans[c].raw.schedule
        /\ after.tasks = state.plans[c].tasks

(***************************************************************************)
(* C38: toggling one leaf twice (checked under SpecSync).                  *)
(***************************************************************************)
leafIds(list) == {n.id : n \in {m \in allNodes(list) : Len(m.children) = 0}}

toggledTwice(st, c, id) ==
  toggleSubtask(toggleSubtask(st, c, ActivityKeyOf[c], id), c, ActivityKeyOf[c], id)

DateStartNotAfterDateEnd ==
  (call.op = "buildSections" /\ call.done) =>
    \A i \in 1..Len(call.sections) :
      call.sections[i].dateStart # <<>> =>
        ~earlier(call.sections[i].dateEnd[1], call.sections[i].dateStart[1])

(***************************************************************************)
(* C40: what a task-level or subtask-level operation leaves alone (checked *)
(* under SpecFrame, for every action applied to the reachable state).      *)
(***************************************************************************)
\* A map without one of its keys.
without(f, k) == [x \in (DOMAIN f) \ {k} |-> f[x]]

framePreserved(st, action) ==
  LET post == reducer(st, action)
      c == action.categoryId
  IN  /\ without(post.plans, c) = without(st.plans, c)
      /\ without(post.progress, c) = without(st.progress, c)
      /\ c \in DOMAIN st.plans =>
            /\ c \in DOMAIN post.plans
            /\ without(post.plans[c].tasks, action.key) = without(st.plans[c].tasks, action.key)
            /\ action.type # "removeTask" => post.plans[c].raw = st.plans[c].raw
      /\ c \notin DOMAIN st.plans => post = st

OperationsKeepTheFrame ==
  \A type \in TaskActionTypes : \A action \in actionsOf(type, subtaskIdAt(clock + 1)) :
    framePreserved(state, action)

\* C40 witness: an operation has changed the TaskMeta of a key of c1 while
\* c2 has a plan with metadata and progress and another key of c1 has
\* metadata.
FrameWitness ==
  /\ clock > 1
  /\ FrameCategories \subseteq DOMAIN state.plans
  /\ state.plans["c2"] = FrameStart.plans["c2"]
  /\ state.progress["c2"].completed > 0
  /\ \E k \in FrameKeysOf["c1"] :
       /\ k \in DOMAIN tasksOf(state, "c1")
       /\ tasksOf(state, "c1")[k] # tasksOf(FrameStart, "c1")[k]
       /\ \E other \in FrameKeysOf["c1"] \ {k} :
            /\ other \in DOMAIN tasksOf(state, "c1")
            /\ tasksOf(state, "c1")[other] = tasksOf(FrameStart, "c1")[other]
            /\ tasksOf(state, "c1")[other] # EmptyMeta

====
